---- MODULE Spec2Model ----
(***************************************************************************)
(* The geofence evaluation engine and its offline event pipeline:          *)
(*   - OfflineManager (src/src/OfflineManager.ts): circular regions, the   *)
(*     per-region inside/outside state, the pending-event queue, the       *)
(*     retry timers and the asynchronous flush (syncPendingEvents);        *)
(*   - PolygonGeofenceManager (src/src/PolygonGeofence.ts): circle and     *)
(*     polygon regions, the grid spatial index, the activation gate and    *)
(*     checkLocation;                                                      *)
(*   - WebhookManager (src/src/WebhookManager.ts): the registered          *)
(*     webhooks, the rate limiter, the delivery queue, the processing      *)
(*     interval and the retries of a delivery;                             *)
(*   - DataManager (src/unnamed/part_007): the stored geofence events and  *)
(*     the sync queue in AsyncStorage.                                     *)
(*                                                                         *)
(* Coordinates are integers.  For OfflineManager a unit is 0.001 degree    *)
(* and every point lies on the meridian longitude = 0, where the haversine *)
(* distance is R * |dLat| exactly.  The timers of OfflineManager fire in   *)
(* any order: real time is not modelled there, only which timeouts are     *)
(* pending and the delay each was scheduled with.  WebhookManager has a    *)
(* clock in milliseconds (hookNow).                                        *)
(***************************************************************************)
EXTENDS Integers, Sequences, FiniteSets, Bags, TLC

VARIABLES
    \* ---- OfflineManager fields (OfflineManager.ts:33-43)
    geofences,        \* Map<string, OfflineGeofence>, in insertion order
    pendingEvents,    \* OfflineEvent[]
    networkStatus,    \* NetworkStatus
    syncCallbacks,    \* sequence of registered sinks
    syncInProgress,   \* the flush-in-progress guard
    retryTimeouts,    \* bag of the delays of the pending setTimeout handles
    \* ---- execution state of the asynchronous syncPendingEvents
    flush,            \* the flush in flight (suspended at an await), or idle
    nextEventId,      \* generateEventId: the next fresh id
    \* ---- observations
    delivered,        \* ids some sink was invoked with and resolved
    evalLog,          \* the last evaluateLocation calls on these regions
    stable,           \* the environment has promised: connected, sinks resolve
    lastOutcomes,     \* how the sinks' promises of the last settled batch ended
    \* ---- PolygonGeofenceManager fields (PolygonGeofence.ts:61-63)
    pgGeofences,      \* Map<string, AdvancedGeofenceRegion>, insertion order
    spatialIndex,     \* Map<cell, Set<id>>: a function on the cells present
    hierarchies,      \* Map<string, GeofenceHierarchy>, insertion order
    checkLog,         \* the last checkLocation calls on these regions
    engine,           \* the manager a behaviour drives: they share no state
    \* ---- ExpoGeofencingImpl (src/unnamed/part_007:565-571)
    nativeRegions,    \* the regions handed to ExpoGeofencingNative.addGeofence
    \* ---- observations of the retry chain, kept by the specifications that
    \* ---- watch it and left as constructed by the others
    backoff,          \* unsynced event id -> delay of the last timer-started
                      \* attempt that failed to deliver it
    sinkCalls,        \* how often the scripted sink has been invoked
    lastReturn,       \* the last call of syncPendingEvents: what it returned
                      \* before any await
    \* ---- WebhookManager fields (WebhookManager.ts:78-83)
    webhooks,         \* Map<string, WebhookConfig>, insertion order
    deliveryQueue,    \* WebhookDeliveryAttempt[]
    hookStats,        \* Map<string, WebhookStats>: the counters
    rateLimitTracking, \* Map<string, { requests, resetTime }>
    isProcessing,     \* a pass of processDeliveryQueue is running
    \* ---- execution state of WebhookManager
    inFlight,         \* the HTTP requests the running pass awaits
    hookNow,          \* Date.now()
    intervalDue,      \* when the processing interval fires next
    nextHookId,       \* generateId: the next fresh id
    attempted,        \* observation: per delivery, the requests made for it
    \* ---- DataManager (src/unnamed/part_007:123-450)
    storedEvents,     \* AsyncStorage: the value of the geofence events key
    storedQueue,      \* AsyncStorage: the value of the sync queue key
    storeCalls,       \* the storeGeofenceEvent calls and where each stands
    nextDataId        \* generateId: the next fresh id

regionVars == <<geofences, evalLog>>

queueVars == <<pendingEvents, nextEventId>>

syncVars == <<networkStatus, syncCallbacks, syncInProgress, retryTimeouts,
              flush, delivered, stable, lastOutcomes>>

offVars == <<regionVars, queueVars, syncVars>>

pgVars == <<pgGeofences, spatialIndex, hierarchies, checkLog>>

watchVars == <<backoff, sinkCalls, lastReturn>>

hookVars == <<webhooks, deliveryQueue, hookStats, rateLimitTracking,
              isProcessing, inFlight, hookNow, intervalDue, nextHookId,
              attempted>>

dataVars == <<storedEvents, storedQueue, storeCalls, nextDataId>>

vars == <<offVars, pgVars, engine, nativeRegions, watchVars, hookVars,
          dataVars>>

----------------------------------------------------------------------------
(* Bounds of the model *)

\* event ids generated by evaluateLocation
MaxEvents == 3
\* setTimeout handles pending at once
MaxTimers == 1
\* registered sync callbacks
MaxCallbacks == 2
\* fix timestamps are 1..MaxTime
MaxTime == 1
\* events generated in the specification of the event pipeline
MaxQueued == 2
\* batchEvents' batchSize: the code's default is 50 (OfflineManager.ts:234);
\* scaled so that a queue of MaxQueued events is flushed in several batches
BatchSize == 1

(* Program constants *)

\* scheduleSyncAttempt's default delay, ms
DefaultDelay == 1000
\* the cap of the doubled delay, ms
MaxDelay == 60000
\* R * pi / 180 for R = 6371000 m: metres per degree of latitude
MetersPerDegree == 111195

Timestamps == 1..MaxTime

----------------------------------------------------------------------------
(* Helpers: JS Map in insertion order, object spread *)

Min(a, b) == IF a <= b THEN a ELSE b

Abs(x) == IF x < 0 THEN -x ELSE x

MapHas(m, id) == \E i \in 1..Len(m) : m[i].id = id

MapGet(m, id) == m[CHOOSE i \in 1..Len(m) : m[i].id = id]

\* Map.set: an existing key keeps its position
MapSet(m, r) ==
    IF MapHas(m, r.id)
    THEN [i \in 1..Len(m) |-> IF m[i].id = r.id THEN r ELSE m[i]]
    ELSE Append(m, r)

MapDelete(m, id) == SelectSeq(m, LAMBDA g : g.id # id)

\* { ...existing, ...updates } for updates whose keys are fields of existing
Spread(existing, updates) ==
    [k \in DOMAIN existing |->
        IF k \in DOMAIN updates THEN updates[k] ELSE existing[k]]

\* metadata is a set of <<key, value>> pairs; {} stands for undefined or {}
\* geofence.metadata?.wasInside || false
WasInside(metadata) == <<"wasInside", TRUE>> \in metadata

\* { ...geofence.metadata, wasInside: b }
WithWasInside(metadata, b) ==
    {p \in metadata : p[1] # "wasInside"} \cup {<<"wasInside", b>>}

----------------------------------------------------------------------------
(* OfflineManager: region CRUD *)

\* addGeofence(geofence): { ...geofence, isActive: true, lastEvaluated: now };
\* no validation, an existing id is overwritten
AddGeofence(geofence, now) ==
    /\ geofences' = MapSet(geofences,
          [f \in DOMAIN geofence \cup {"isActive", "lastEvaluated"} |->
              IF f = "isActive" THEN TRUE
              ELSE IF f = "lastEvaluated" THEN now
              ELSE geofence[f]])
    /\ evalLog' = << >>
    /\ UNCHANGED <<queueVars, syncVars, pgVars>>

RemoveGeofence(regionId) ==
    /\ geofences' = MapDelete(geofences, regionId)
    /\ evalLog' = << >>
    /\ UNCHANGED <<queueVars, syncVars, pgVars>>

UpdateGeofence(regionId, updates) ==
    /\ geofences' = IF MapHas(geofences, regionId)
                    THEN MapSet(geofences,
                                Spread(MapGet(geofences, regionId), updates))
                    ELSE geofences
    /\ evalLog' = IF DOMAIN updates \subseteq {"isActive"}
                  THEN evalLog ELSE << >>
    /\ UNCHANGED <<queueVars, syncVars, pgVars>>

\* mutation: inactive regions are evaluated too
getGeofencesUnfiltered(gs) == gs

getActiveGeofences(gs) == SelectSeq(gs, LAMBDA g : g.isActive)

----------------------------------------------------------------------------
(* OfflineManager: evaluateLocation *)

\* Haversine distance in metres, for two points of the same meridian
\* (coordinates in 0.001 degree): R * |dLat| in radians
calculateDistance(lat1, lon1, lat2, lon2) ==
    (Abs(lat2 - lat1) * MetersPerDegree) \div 1000

\* distance <= geofence.radius; with a coordinate missing the distance is
\* NaN, with the radius missing it is compared with undefined: false
IsInside(location, geofence) ==
    IF {"latitude", "longitude", "radius"} \subseteq DOMAIN geofence
    THEN calculateDistance(location.latitude, location.longitude,
                           geofence.latitude, geofence.longitude)
            <= geofence.radius
    ELSE FALSE

\* the guard of the entry branch (OfflineManager.ts:99)
\* mutation: the entry test ignores the stored state
EntryConditionStateless(isInside, wasInside, geofence) ==
    isInside /\ geofence.notifyOnEntry

EntryCondition(isInside, wasInside, geofence) ==
    isInside /\ ~wasInside /\ geofence.notifyOnEntry

\* the guard of the exit branch (OfflineManager.ts:115)
\* mutation: the negation of isInside is dropped from the exit test
ExitConditionInverted(isInside, wasInside, geofence) ==
    isInside /\ wasInside /\ geofence.notifyOnExit

ExitCondition(isInside, wasInside, geofence) ==
    ~isInside /\ wasInside /\ geofence.notifyOnExit

NewEvent(id, type, geofence, location) ==
    [id |-> id, type |-> type, regionId |-> geofence.id,
     location |-> location, timestamp |-> location.timestamp,
     synced |-> FALSE]

\* The loop body for one geofence: acc holds the map, the returned events,
\* the pending queue and the next event id
EvaluateOne(geofence, location, acc) ==
    LET isInside == IsInside(location, geofence)
        wasInside == WasInside(geofence.metadata)
        touched == [geofence EXCEPT !.lastEvaluated = location.timestamp]
    IN  IF EntryCondition(isInside, wasInside, geofence)
        THEN LET event == NewEvent(acc.nid, "enter", geofence, location)
             IN  [gs |-> MapSet(acc.gs,
                        [touched EXCEPT !.metadata =
                            WithWasInside(geofence.metadata, TRUE)]),
                  events |-> Append(acc.events, event),
                  pending |-> Append(acc.pending, event),
                  nid |-> acc.nid + 1]
        ELSE IF ExitCondition(isInside, wasInside, geofence)
        THEN LET event == NewEvent(acc.nid, "exit", geofence, location)
             IN  [gs |-> MapSet(acc.gs,
                        [touched EXCEPT !.metadata =
                            WithWasInside(geofence.metadata, FALSE)]),
                  events |-> Append(acc.events, event),
                  pending |-> Append(acc.pending, event),
                  nid |-> acc.nid + 1]
        ELSE [acc EXCEPT !.gs = MapSet(acc.gs, touched)]

RECURSIVE EvaluateFrom(_, _, _, _)
\* for (const geofence of activeGeofences), from the i-th one on
EvaluateFrom(i, active, location, acc) ==
    IF i > Len(active)
    THEN acc
    ELSE EvaluateFrom(i + 1, active, location,
                      EvaluateOne(active[i], location, acc))

EvaluateResult(location) ==
    EvaluateFrom(1, getActiveGeofences(geofences), location,
                 [gs |-> geofences, events |-> << >>,
                  pending |-> pendingEvents, nid |-> nextEventId])

TimerCount == BagCardinality(retryTimeouts)

\* mutation: scheduleSyncAttempt sets no timer
NeverScheduled(timeouts, inProgress, delay) == timeouts

\* scheduleSyncAttempt(delay): nothing while a flush is in progress
Scheduled(timeouts, inProgress, delay) ==
    IF inProgress THEN timeouts ELSE timeouts (+) SetToBag({delay})

evaluateLocation(location) ==
    LET r == EvaluateResult(location)
        trigger == Len(r.events) > 0 /\ networkStatus.isConnected
    IN  /\ r.nid <= MaxEvents + 1
        /\ (trigger /\ ~syncInProgress) => TimerCount < MaxTimers
        /\ geofences' = r.gs
        /\ pendingEvents' = r.pending
        /\ nextEventId' = r.nid
        /\ retryTimeouts' = IF trigger
                            THEN Scheduled(retryTimeouts, syncInProgress,
                                           DefaultDelay)
                            ELSE retryTimeouts
        /\ UNCHANGED <<pgVars, networkStatus, syncCallbacks, syncInProgress,
                       flush, delivered, stable, lastOutcomes>>

Ids(gs) == {gs[i].id : i \in 1..Len(gs)}

\* What one evaluateLocation call saw and returned
LogEntry(location) ==
    [location |-> location,
     before |-> {id \in Ids(geofences) :
                    WasInside(MapGet(geofences, id).metadata)},
     active |-> {id \in Ids(geofences) : MapGet(geofences, id).isActive},
     within |-> {id \in Ids(geofences) :
                    IsInside(location, MapGet(geofences, id))},
     events |-> [i \in 1..Len(EvaluateResult(location).events) |->
                    <<EvaluateResult(location).events[i].type,
                      EvaluateResult(location).events[i].regionId>>]]

LogDepth == 3

Logged(log, entry) ==
    IF Len(log) < LogDepth THEN Append(log, entry)
    ELSE Append(Tail(log), entry)

EvaluateLocation(location) ==
    /\ evaluateLocation(location)
    /\ evalLog' = Logged(evalLog, LogEntry(location))

----------------------------------------------------------------------------
(* OfflineManager: network, sinks, the flush and its timers *)

Unsynced(events) == SelectSeq(events, LAMBDA e : ~e.synced)

getPendingEventsCount(events) == Len(Unsynced(events))

\* updateNetworkStatus(status); status is a partial NetworkStatus
updateNetworkStatus(status, now) ==
    LET wasConnected == networkStatus.isConnected
        merged == Spread(networkStatus, status)
        reconnected == ~wasConnected /\ merged.isConnected
    IN  /\ (reconnected /\ ~syncInProgress) => TimerCount < MaxTimers
        /\ networkStatus' = IF reconnected
                            THEN [merged EXCEPT !.lastConnected = now]
                            ELSE merged
        /\ retryTimeouts' = IF reconnected
                            THEN Scheduled(retryTimeouts, syncInProgress,
                                           DefaultDelay)
                            ELSE retryTimeouts

UpdateNetworkStatus(status, now) ==
    /\ stable => Spread(networkStatus, status).isConnected
    /\ updateNetworkStatus(status, now)
    /\ UNCHANGED <<pgVars, regionVars, queueVars, syncCallbacks, syncInProgress,
                   flush, delivered, stable, lastOutcomes>>

AddSyncCallback(callback) ==
    /\ Len(syncCallbacks) < MaxCallbacks
    /\ syncCallbacks' = Append(syncCallbacks, callback)
    /\ UNCHANGED <<pgVars, regionVars, queueVars, networkStatus, syncInProgress,
                   retryTimeouts, flush, delivered, stable, lastOutcomes>>

\* indexOf + splice: the first occurrence is removed
RemoveSyncCallback(callback) ==
    /\ syncCallbacks' =
          IF \E i \in 1..Len(syncCallbacks) : syncCallbacks[i] = callback
          THEN LET index == CHOOSE i \in 1..Len(syncCallbacks) :
                              /\ syncCallbacks[i] = callback
                              /\ \A j \in 1..(i - 1) :
                                    syncCallbacks[j] # callback
               IN  SubSeq(syncCallbacks, 1, index - 1)
                   \o SubSeq(syncCallbacks, index + 1, Len(syncCallbacks))
          ELSE syncCallbacks
    /\ UNCHANGED <<pgVars, regionVars, queueVars, networkStatus, syncInProgress,
                   retryTimeouts, flush, delivered, stable, lastOutcomes>>

ClearSyncedEvents ==
    /\ pendingEvents' = Unsynced(pendingEvents)
    /\ UNCHANGED <<pgVars, regionVars, nextEventId, syncVars>>

RECURSIVE batchEvents(_, _)
\* slices of batchSize events; the batches hold the events' ids
batchEvents(events, batchSize) ==
    IF Len(events) = 0
    THEN << >>
    ELSE <<[i \in 1..Min(batchSize, Len(events)) |-> events[i].id]>>
         \o batchEvents(SubSeq(events, Min(batchSize, Len(events)) + 1,
                               Len(events)), batchSize)

Idle ==
    [phase |-> "idle", origin |-> "none", delay |-> 0, batches |-> << >>,
     idx |-> 0, called |-> << >>, syncedCount |-> 0, failedCount |-> 0]

Refused == [success |-> FALSE, synced |-> 0, failed |-> 0]

SeqToSet(q) == {q[i] : i \in 1..Len(q)}

\* mutation: the timer callback gives up after a failed attempt
NoRetry(result, delay, timeouts, inProgress, events) == timeouts

\* The rest of the setTimeout callback once syncPendingEvents has returned
\* result (OfflineManager.ts:254-258)
AfterAttempt(result, delay, timeouts, inProgress, events) ==
    IF ~result.success /\ getPendingEventsCount(events) > 0
    THEN Scheduled(timeouts, inProgress, Min(delay * 2, MaxDelay))
    ELSE timeouts

\* The retry decision of a caller of syncPendingEvents: the timer callback
\* goes on with AfterAttempt, a direct caller does nothing
Continuation(origin, result, delay, timeouts, inProgress, events) ==
    IF origin = "timer"
    THEN AfterAttempt(result, delay, timeouts, inProgress, events)
    ELSE timeouts

\* mutation: only the first registered callback is called
InvokedFirst(callbacks) == SubSeq(callbacks, 1, Min(1, Len(callbacks)))

\* this.syncCallbacks.map(callback => callback(batch)): the callbacks a
\* batch is handed to
Invoked(callbacks) == callbacks

\* syncPendingEvents up to its first await (or its return, when it has
\* none), batchSize being the default of batchEvents' second parameter
Flush(origin, delay, timeouts, batchSize) ==
    IF syncInProgress \/ ~networkStatus.isConnected
    THEN /\ retryTimeouts' = Continuation(origin, Refused, delay, timeouts,
                                          syncInProgress, pendingEvents)
         /\ UNCHANGED <<syncInProgress, flush>>
    ELSE IF Len(Unsynced(pendingEvents)) = 0
    THEN /\ retryTimeouts' = Continuation(origin, [success |-> TRUE], delay,
                                          timeouts, FALSE, pendingEvents)
         /\ UNCHANGED <<syncInProgress, flush>>
    ELSE /\ syncInProgress' = TRUE
         /\ flush' = [phase |-> "awaiting", origin |-> origin,
                      delay |-> delay,
                      batches |-> batchEvents(Unsynced(pendingEvents),
                                              batchSize),
                      idx |-> 1, called |-> Invoked(syncCallbacks),
                      syncedCount |-> 0, failedCount |-> 0]
         /\ retryTimeouts' = timeouts

\* mutation: a flush is started whether or not one is in flight
syncPendingEventsUnguarded(origin, delay, timeouts) ==
    IF syncInProgress /\ networkStatus.isConnected
    THEN /\ syncInProgress' = TRUE
         /\ flush' = [phase |-> "awaiting", origin |-> origin,
                      delay |-> delay,
                      batches |-> batchEvents(Unsynced(pendingEvents),
                                              BatchSize),
                      idx |-> 1, called |-> Invoked(syncCallbacks),
                      syncedCount |-> 0, failedCount |-> 0]
         /\ retryTimeouts' = timeouts
    ELSE Flush(origin, delay, timeouts, BatchSize)

\* syncPendingEvents in the model's scale: batches of BatchSize events
syncPendingEvents(origin, delay, timeouts) ==
    Flush(origin, delay, timeouts, BatchSize)

\* A direct call: syncPendingEvents() or forceSyncAttempt()
ForceSyncAttempt ==
    /\ syncPendingEvents("direct", 0, retryTimeouts)
    /\ UNCHANGED <<pgVars, regionVars, queueVars, networkStatus, syncCallbacks,
                   delivered, stable, lastOutcomes>>

\* A pending timeout of scheduleSyncAttempt(delay) fires
TimerFires(delay) ==
    /\ BagIn(delay, retryTimeouts)
    /\ syncPendingEvents("timer", delay, retryTimeouts (-) SetToBag({delay}))
    /\ UNCHANGED <<pgVars, regionVars, queueVars, networkStatus, syncCallbacks,
                   delivered, stable, lastOutcomes>>

\* setupPeriodicSync: the 30 s interval callback
PeriodicSync ==
    /\ LET due == getPendingEventsCount(pendingEvents) > 0
                     /\ networkStatus.isConnected
       IN  /\ (due /\ ~syncInProgress) => TimerCount < MaxTimers
           /\ retryTimeouts' = IF due
                               THEN Scheduled(retryTimeouts, syncInProgress,
                                              DefaultDelay)
                               ELSE retryTimeouts
    /\ UNCHANGED <<pgVars, regionVars, queueVars, networkStatus, syncCallbacks,
                   syncInProgress, flush, delivered, stable, lastOutcomes>>

\* mutation: a batch that resolves marks every event of the queue
MarkAllSynced(events, batch) ==
    [i \in 1..Len(events) |-> [events[i] EXCEPT !.synced = TRUE]]

\* batch.forEach(event => event.synced = true)
MarkSynced(events, batch) ==
    [i \in 1..Len(events) |->
        IF events[i].id \in SeqToSet(batch)
        THEN [events[i] EXCEPT !.synced = TRUE]
        ELSE events[i]]

\* mutation: a batch counts as delivered only while the network is connected
AllResolveOnline(outcomes) ==
    networkStatus.isConnected /\ \A i \in DOMAIN outcomes : outcomes[i]

\* mutation: one resolved promise is enough
AnyResolves(outcomes) == \E i \in DOMAIN outcomes : outcomes[i]

\* Promise.all over the callbacks' promises resolves iff every one resolves
\* (and at once when there is none)
AllResolve(outcomes) == \A i \in DOMAIN outcomes : outcomes[i]

\* The await of the current batch settles: outcomes[i] tells whether the
\* promise of the i-th invoked callback resolves.  The flush goes on to the
\* next batch, or ends (filter, return, finally) and its caller goes on.
BatchSettles(outcomes) ==
    LET batch == flush.batches[flush.idx]
        ok == AllResolve(outcomes)
        marked == IF ok THEN MarkSynced(pendingEvents, batch)
                  ELSE pendingEvents
        syncedCount == flush.syncedCount + (IF ok THEN Len(batch) ELSE 0)
        failedCount == flush.failedCount + (IF ok THEN 0 ELSE Len(batch))
        result == [success |-> syncedCount > 0, synced |-> syncedCount,
                   failed |-> failedCount]
    IN  /\ flush.phase = "awaiting"
        /\ stable => ok
        /\ delivered' = delivered \cup
              (IF \E i \in DOMAIN outcomes : outcomes[i]
               THEN SeqToSet(batch) ELSE {})
        /\ IF flush.idx < Len(flush.batches)
           THEN /\ flush' = [flush EXCEPT !.idx = flush.idx + 1,
                                          !.called = Invoked(syncCallbacks),
                                          !.syncedCount = syncedCount,
                                          !.failedCount = failedCount]
                /\ pendingEvents' = marked
                /\ UNCHANGED <<syncInProgress, retryTimeouts>>
           ELSE /\ flush' = Idle
                /\ pendingEvents' = Unsynced(marked)
                /\ syncInProgress' = FALSE
                /\ retryTimeouts' =
                      Continuation(flush.origin, result, flush.delay,
                                   retryTimeouts, FALSE, Unsynced(marked))
        /\ lastOutcomes' = outcomes
        /\ UNCHANGED <<pgVars, regionVars, nextEventId, networkStatus,
                       syncCallbacks, stable>>

\* The environment commits: from here on the network stays connected and
\* every sink resolves
Stabilise ==
    /\ ~stable
    /\ networkStatus.isConnected
    /\ stable' = TRUE
    /\ UNCHANGED <<pgVars, regionVars, queueVars, networkStatus, syncCallbacks,
                   syncInProgress, retryTimeouts, flush, delivered,
                   lastOutcomes>>

----------------------------------------------------------------------------
(* PolygonGeofenceManager.  A coordinate unit is 0.001 degree and the       *)
(* regions lie near the equator, where cos(latitude) is 1 to six digits.   *)
(* A bounding box is kept in units of 1/BoxScale of a coordinate unit, so  *)
(* that radius / 111000 degree is an integer.                              *)

\* GRID_SIZE = 0.01 degree, in coordinate units
GRID_SIZE == 10
\* calculateBoundingBox: 111000 m per degree, so 111 m per coordinate unit
BoxScale == 111
\* haversine: R * pi / 180 = 111195 m per degree, 111 m per coordinate unit
MetersPerUnit == 111

Point(latitude, longitude) == [latitude |-> latitude, longitude |-> longitude]

SetMin(S) == CHOOSE x \in S : \A y \in S : x <= y

SetMax(S) == CHOOSE x \in S : \A y \in S : y <= x

\* Math.min() of no numbers, in units of 1/BoxScale of a coordinate unit;
\* Math.max() of no numbers is -Infinity
Infinity == 1000000000

\* a region may lack its center; a radius of 0 stands for 0 or undefined
calculateBoundingBox(geofence) ==
    IF geofence.type = "circle" /\ "center" \in DOMAIN geofence
       /\ geofence.radius # 0
    THEN [minLat |-> BoxScale * geofence.center.latitude - geofence.radius,
          maxLat |-> BoxScale * geofence.center.latitude + geofence.radius,
          minLng |-> BoxScale * geofence.center.longitude - geofence.radius,
          maxLng |-> BoxScale * geofence.center.longitude + geofence.radius]
    ELSE LET lats == {geofence.vertices[i].latitude :
                        i \in 1..Len(geofence.vertices)}
             lngs == {geofence.vertices[i].longitude :
                        i \in 1..Len(geofence.vertices)}
         IN  IF Len(geofence.vertices) = 0
             THEN [minLat |-> Infinity, maxLat |-> -Infinity,
                   minLng |-> Infinity, maxLng |-> -Infinity]
             ELSE [minLat |-> BoxScale * SetMin(lats),
                   maxLat |-> BoxScale * SetMax(lats),
                   minLng |-> BoxScale * SetMin(lngs),
                   maxLng |-> BoxScale * SetMax(lngs)]

\* Math.floor(lat / GRID_SIZE), Math.floor(lng / GRID_SIZE); the key string
\* "lat,lng" is modelled by the pair
getGridCell(lat, lng) == <<lat \div GRID_SIZE, lng \div GRID_SIZE>>

getGridCells(boundingBox) ==
    {<<lat, lng>> :
        lat \in (boundingBox.minLat \div (BoxScale * GRID_SIZE))
                ..(boundingBox.maxLat \div (BoxScale * GRID_SIZE)),
        lng \in (boundingBox.minLng \div (BoxScale * GRID_SIZE))
                ..(boundingBox.maxLng \div (BoxScale * GRID_SIZE))}

getAdjacentCells(cellKey) ==
    {<<cellKey[1] + dLat, cellKey[2] + dLng>> :
        dLat \in {-1, 0, 1}, dLng \in {-1, 0, 1}} \ {cellKey}

\* addToSpatialIndex: the id joins the bucket of every cell of the box
addToSpatialIndex(index, geofence) ==
    LET gridCells == getGridCells(geofence.boundingBox)
    IN  [cell \in DOMAIN index \cup gridCells |->
            IF cell \in gridCells
            THEN (IF cell \in DOMAIN index THEN index[cell] ELSE {})
                 \cup {geofence.id}
            ELSE index[cell]]

\* removeFromSpatialIndex: the id leaves the buckets of the cells of the
\* box, and a bucket left empty is deleted
removeFromSpatialIndex(index, geofence) ==
    LET gridCells == getGridCells(geofence.boundingBox)
        emptied == {cell \in DOMAIN index \cap gridCells :
                      index[cell] \ {geofence.id} = {}}
    IN  [cell \in DOMAIN index \ emptied |->
            IF cell \in gridCells THEN index[cell] \ {geofence.id}
            ELSE index[cell]]

\* The ids getCandidateGeofences collects: the bucket of the point's cell
\* and the buckets of the 8 adjacent cells
CandidateIds(index, point) ==
    LET cellKey == getGridCell(point.latitude, point.longitude)
    IN  UNION {index[cell] :
                cell \in (getAdjacentCells(cellKey) \cup {cellKey})
                         \cap DOMAIN index}

\* candidateIds is the bucket of the point's cell itself when that cell is
\* present (spatialIndex.get(cellKey) || new Set()), so adding the adjacent
\* cells' ids to it writes them into the index
IndexAfterQuery(index, point) ==
    LET cellKey == getGridCell(point.latitude, point.longitude)
    IN  IF cellKey \in DOMAIN index
        THEN [index EXCEPT ![cellKey] = CandidateIds(index, point)]
        ELSE index

\* the candidates: the collected ids that are live regions
getCandidateGeofences(gs, index, point) ==
    {id \in CandidateIds(index, point) : MapHas(gs, id)}

\* 360 degrees in the model's unit of 0.001 degree
FullTurn == 360000

\* Math.sin(dLon / 2) squared has a period of 360 degrees: longitudes differ
\* by what they differ around the globe
LonDiff(lon1, lon2) ==
    LET d == Abs(lon2 - lon1) % FullTurn
    IN  Min(d, FullTurn - d)

\* calculateDistance(...) <= radius for points near the equator, where the
\* haversine distance is MetersPerUnit * sqrt(dLat^2 + dLng^2)
DistanceAtMost(lat1, lon1, lat2, lon2, radius) ==
    LET dLat == Abs(lat2 - lat1)
        dLon == LonDiff(lon1, lon2)
    IN  \* neither difference alone exceeds the radius (this keeps the
        \* squares below within 32 bits), nor do both together
        /\ MetersPerUnit * dLat <= radius
        /\ MetersPerUnit * dLon <= radius
        /\ MetersPerUnit * MetersPerUnit * (dLat * dLat + dLon * dLon)
              <= radius * radius

isPointInCircle(point, geofence) ==
    IF "center" \notin DOMAIN geofence \/ geofence.radius = 0
    THEN FALSE
    ELSE DistanceAtMost(point.latitude, point.longitude,
                        geofence.center.latitude, geofence.center.longitude,
                        geofence.radius)

\* the edge from vertex j to vertex i toggles `inside`:
\* ((yi > y) !== (yj > y)) && (x < (xj - xi) * (y - yi) / (yj - yi) + xi),
\* the division cleared by multiplying with yj - yi
EdgeCrossed(point, vi, vj) ==
    LET x == point.longitude
        y == point.latitude
        xi == vi.longitude
        yi == vi.latitude
        xj == vj.longitude
        yj == vj.latitude
    IN  /\ (yi > y) # (yj > y)
        /\ IF yj - yi > 0
           THEN (x - xi) * (yj - yi) < (xj - xi) * (y - yi)
           ELSE (x - xi) * (yj - yi) > (xj - xi) * (y - yi)

\* mutation: the loop starts at the second vertex, so that the edge from
\* the last vertex back to the first is never tested
isPointInPolygonOpen(point, vertices) ==
    IF Len(vertices) < 3
    THEN FALSE
    ELSE Cardinality({i \in 2..Len(vertices) :
            EdgeCrossed(point, vertices[i], vertices[i - 1])})
         % 2 = 1

\* ray casting: `inside` is toggled once per crossed edge (i, j = i - 1, the
\* first edge joining the last vertex to the first)
isPointInPolygon(point, vertices) ==
    IF Len(vertices) < 3
    THEN FALSE
    ELSE Cardinality({i \in 1..Len(vertices) :
            EdgeCrossed(point, vertices[i],
                        vertices[IF i = 1 THEN Len(vertices) ELSE i - 1])})
         % 2 = 1

isPointInside(point, geofence) ==
    IF geofence.type = "circle"
    THEN isPointInCircle(point, geofence)
    ELSE isPointInPolygon(point, geofence.vertices)

\* A timestamp is in minutes since a Sunday 00:00 local time; a time of day
\* "HH:MM" is the pair <<HH, MM>>.
getDay(timestamp) == (timestamp \div 1440) % 7

\* the string built from getHours() and getMinutes()
timeString(timestamp) == <<(timestamp % 1440) \div 60, timestamp % 60>>

\* Number(part) of a part of the string that is no number; a time of day
\* is the sequence time.split(':').map(Number), and << >> stands for a
\* startTime or endTime that is no string (undefined, a number)
NaN == -1

\* hours * 60 + minutes, NaN when a part is NaN or missing
timeToMinutes(time) ==
    IF Len(time) < 2 \/ time[1] = NaN \/ time[2] = NaN
    THEN NaN
    ELSE time[1] * 60 + time[2]

\* a <= b for numbers of which either may be NaN
Leq(a, b) == a # NaN /\ b # NaN /\ a <= b

isTimeInRange(time, startTime, endTime) ==
    LET timeMinutes == timeToMinutes(time)
        startMinutes == timeToMinutes(startTime)
        endMinutes == timeToMinutes(endTime)
    IN  IF Leq(startMinutes, endMinutes)
        THEN Leq(startMinutes, timeMinutes) /\ Leq(timeMinutes, endMinutes)
        ELSE Leq(startMinutes, timeMinutes) \/ Leq(timeMinutes, endMinutes)

isTimeRuleActive(geofence, timestamp) ==
    IF Len(geofence.timeRules) = 0
    THEN TRUE
    ELSE \E i \in 1..Len(geofence.timeRules) :
            LET rule == geofence.timeRules[i]
            IN  /\ rule.isActive
                /\ getDay(timestamp) \in rule.daysOfWeek
                /\ isTimeInRange(timeString(timestamp), rule.startTime,
                                 rule.endTime)

\* isTimeRuleActive throws a TypeError: the first rule that is active and
\* covers the day either returns true or, when its startTime or endTime is
\* no string, throws at time.split in timeToMinutes
isTimeRuleActiveThrows(geofence, timestamp) ==
    LET reaches(j) ==
            /\ geofence.timeRules[j].isActive
            /\ getDay(timestamp) \in geofence.timeRules[j].daysOfWeek
        notString(j) ==
            \/ geofence.timeRules[j].startTime = << >>
            \/ geofence.timeRules[j].endTime = << >>
        returns(j) ==
            /\ reaches(j)
            /\ ~notString(j)
            /\ isTimeInRange(timeString(timestamp),
                             geofence.timeRules[j].startTime,
                             geofence.timeRules[j].endTime)
    IN  \E j \in 1..Len(geofence.timeRules) :
            /\ reaches(j)
            /\ notString(j)
            /\ \A i \in 1..(j - 1) :
                  ~returns(i) /\ ~(reaches(i) /\ notString(i))

areConditionalRulesActive(geofence) ==
    IF Len(geofence.conditionalRules) = 0
    THEN TRUE
    ELSE \A i \in 1..Len(geofence.conditionalRules) :
            geofence.conditionalRules[i].isActive

\* the two `continue` tests of checkLocation (PolygonGeofence.ts:138-145)
PassesGate(geofence, timestamp) ==
    isTimeRuleActive(geofence, timestamp)
    /\ areConditionalRulesActive(geofence)

\* A GeofenceHierarchy is a record with id, parentId ("" for undefined) and
\* children; the ledger holds the objects themselves, so what is written to
\* the object found under one key is what is read under that key later.
\* updateHierarchyReferences: the entry is set, and its id joins the
\* children of the parent the ledger holds
updateHierarchyReferences(ledger, hierarchy) ==
    LET set == MapSet(ledger, hierarchy)
    IN  IF hierarchy.parentId # "" /\ MapHas(set, hierarchy.parentId)
        THEN LET parent == MapGet(set, hierarchy.parentId)
             IN  IF hierarchy.id \in SeqToSet(parent.children)
                 THEN set
                 ELSE MapSet(set, [parent EXCEPT
                                     !.children = Append(@, hierarchy.id)])
        ELSE set

\* removeFromHierarchy: the id leaves the children of its parent, the
\* children it lists lose their parentId, the entry is deleted
removeFromHierarchy(ledger, regionId) ==
    IF ~MapHas(ledger, regionId)
    THEN ledger
    ELSE LET hierarchy == MapGet(ledger, regionId)
             detached ==
                 IF hierarchy.parentId # ""
                    /\ MapHas(ledger, hierarchy.parentId)
                 THEN LET parent == MapGet(ledger, hierarchy.parentId)
                      IN  MapSet(ledger, [parent EXCEPT !.children =
                              SelectSeq(@, LAMBDA id : id # regionId)])
                 ELSE ledger
             children == SeqToSet(MapGet(detached, regionId).children)
             orphaned ==
                 [i \in 1..Len(detached) |->
                     IF detached[i].id \in children
                     THEN [detached[i] EXCEPT !.parentId = ""]
                     ELSE detached[i]]
         IN  MapDelete(orphaned, regionId)

\* addGeofence(region); region.hierarchy is optional, and callers give it
\* the id of the region, so that hierarchies.set(region.id, ...) and
\* hierarchies.set(hierarchy.id, ...) write the same key
PgAddGeofence(region) ==
    LET geofence == [f \in DOMAIN region \cup {"boundingBox"} |->
                        IF f = "boundingBox"
                        THEN calculateBoundingBox(region)
                        ELSE region[f]]
    IN  /\ pgGeofences' = MapSet(pgGeofences, geofence)
        /\ spatialIndex' = addToSpatialIndex(spatialIndex, geofence)
        /\ hierarchies' =
              IF "hierarchy" \in DOMAIN geofence
              THEN updateHierarchyReferences(
                       MapSet(hierarchies, geofence.hierarchy),
                       geofence.hierarchy)
              ELSE hierarchies
        /\ checkLog' = << >>
        /\ UNCHANGED offVars

PgRemoveGeofence(regionId) ==
    /\ IF MapHas(pgGeofences, regionId)
       THEN /\ spatialIndex' = removeFromSpatialIndex(spatialIndex,
                                   MapGet(pgGeofences, regionId))
            /\ pgGeofences' = MapDelete(pgGeofences, regionId)
            /\ hierarchies' =
                  IF "hierarchy" \in DOMAIN MapGet(pgGeofences, regionId)
                  THEN removeFromHierarchy(hierarchies, regionId)
                  ELSE hierarchies
       ELSE UNCHANGED <<pgGeofences, spatialIndex, hierarchies>>
    /\ checkLog' = << >>
    /\ UNCHANGED offVars

PgUpdateGeofence(regionId, updates) ==
    /\ IF MapHas(pgGeofences, regionId)
       THEN LET existing == MapGet(pgGeofences, regionId)
                merged == Spread(existing, updates)
                updated == [merged EXCEPT
                              !.boundingBox = calculateBoundingBox(merged)]
            IN  /\ pgGeofences' = MapSet(pgGeofences, updated)
                /\ spatialIndex' =
                      addToSpatialIndex(
                          removeFromSpatialIndex(spatialIndex, existing),
                          updated)
       ELSE UNCHANGED <<pgGeofences, spatialIndex>>
    /\ UNCHANGED hierarchies
    /\ checkLog' = << >>
    /\ UNCHANGED offVars

\* the stored state of a candidate that passed the gate, after the pass
\* mutation: the stored state is set on arrival and never cleared
StateAfterCheckSticky(metadata, isInside) ==
    WithWasInside(metadata, isInside \/ WasInside(metadata))

StateAfterCheck(metadata, isInside) == WithWasInside(metadata, isInside)

\* checkLocation's loop body for one region of the map
CheckOne(geofence, candidates, point, timestamp) ==
    IF geofence.id \in candidates /\ PassesGate(geofence, timestamp)
    THEN [geofence EXCEPT !.metadata =
            StateAfterCheck(geofence.metadata,
                            isPointInside(point, geofence))]
    ELSE geofence

\* checkLocation has no try: the TypeError of one candidate ends the call
CheckThrows(gs, index, point, timestamp) ==
    \E id \in getCandidateGeofences(gs, index, point) :
        isTimeRuleActiveThrows(MapGet(gs, id), timestamp)

\* the result lists of checkLocation, as sets of ids; a call that throws
\* returns no lists
CheckResult(gs, index, point, timestamp) ==
    LET evaluated == {id \in getCandidateGeofences(gs, index, point) :
                        PassesGate(MapGet(gs, id), timestamp)}
        within == {id \in evaluated : isPointInside(point, MapGet(gs, id))}
    IN  IF CheckThrows(gs, index, point, timestamp)
        THEN [inside |-> {}, entered |-> {}, exited |-> {}]
        ELSE [inside |-> within,
              entered |-> {id \in within :
                             /\ ~WasInside(MapGet(gs, id).metadata)
                             /\ MapGet(gs, id).notifyOnEntry},
              exited |-> {id \in evaluated \ within :
                            /\ WasInside(MapGet(gs, id).metadata)
                            /\ MapGet(gs, id).notifyOnExit}]

\* The candidates are visited in the order their ids entered the buckets.
\* The regions with a rule that throws share their cells with the other
\* candidates and never change shape, so this is the order of the map; the
\* candidates before the one that throws are reached, evaluated and their
\* state is stored, the others are not.
Reached(gs, index, point, timestamp) ==
    LET candidates == getCandidateGeofences(gs, index, point)
        throws(j) ==
            /\ gs[j].id \in candidates
            /\ isTimeRuleActiveThrows(gs[j], timestamp)
    IN  {gs[i].id : i \in {i \in 1..Len(gs) :
                              /\ gs[i].id \in candidates
                              /\ \A j \in 1..i : ~throws(j)}}

checkLocation(point, timestamp) ==
    LET reached == Reached(pgGeofences, spatialIndex, point, timestamp)
    IN  /\ spatialIndex' = IndexAfterQuery(spatialIndex, point)
        /\ pgGeofences' =
              [i \in 1..Len(pgGeofences) |->
                  CheckOne(pgGeofences[i], reached, point, timestamp)]
        /\ UNCHANGED hierarchies

\* What one checkLocation call was given, the ids stored Inside before it,
\* the candidates it evaluated (those that pass the gate) and what it returned
CheckEntry(point, timestamp) ==
    [point |-> point, timestamp |-> timestamp,
     threw |-> CheckThrows(pgGeofences, spatialIndex, point, timestamp),
     before |-> {id \in Ids(pgGeofences) :
                    WasInside(MapGet(pgGeofences, id).metadata)},
     evaluated |-> {id \in Reached(pgGeofences, spatialIndex, point,
                                    timestamp) :
                        PassesGate(MapGet(pgGeofences, id), timestamp)},
     result |-> CheckResult(pgGeofences, spatialIndex, point, timestamp)]

CheckDepth == 2

CheckLocation(point, timestamp) ==
    /\ checkLocation(point, timestamp)
    /\ checkLog' = IF Len(checkLog) < CheckDepth
                   THEN Append(checkLog, CheckEntry(point, timestamp))
                   ELSE Append(Tail(checkLog), CheckEntry(point, timestamp))
    /\ UNCHANGED offVars

----------------------------------------------------------------------------
(* WebhookManager (src/src/WebhookManager.ts).  Times are milliseconds.    *)
(* Of a webhook the fields that decide queueing and delivery are kept:     *)
(* events, isActive, retryConfig and rateLimit; of a delivery its id,      *)
(* webhookId, attempt, status and nextRetryAt (0 for undefined); of the    *)
(* statistics the three counters.  The outcome of an HTTP request (a       *)
(* response, an error or the timeout) is the environment's choice.         *)

\* retryConfig of a webhook added without one (WebhookManager.ts:99-104)
DefaultMaxRetries == 3
DefaultBaseDelay == 1000
DefaultMaxDelay == 60000

DefaultRetryConfig ==
    [maxRetries |-> DefaultMaxRetries, backoffStrategy |-> "exponential",
     baseDelay |-> DefaultBaseDelay, maxDelay |-> DefaultMaxDelay]

\* the period of the processing interval, ms
ProcessingInterval == 5000
\* the jitter is Math.random() * 1000: at least 0, below JitterRange
JitterRange == 1000
\* deliveries attempted concurrently in one pass: slice(0, 10)
BatchLimit == 10

\* { ...existing, ...updates }, for any keys
SpreadAll(existing, updates) ==
    [k \in DOMAIN existing \cup DOMAIN updates |->
        IF k \in DOMAIN updates THEN updates[k] ELSE existing[k]]

Pow2(n) == IF n <= 0 THEN 1 ELSE 2 ^ n

\* addWebhook(config): a fresh id, isActive ?? true and each field of
\* retryConfig ?? its default
AddWebhook(config) ==
    LET retryConfig ==
            [f \in DOMAIN DefaultRetryConfig |->
                IF /\ "retryConfig" \in DOMAIN config
                   /\ f \in DOMAIN config.retryConfig
                THEN config.retryConfig[f]
                ELSE DefaultRetryConfig[f]]
        webhook ==
            [f \in DOMAIN config \cup {"id", "isActive", "retryConfig"} |->
                IF f = "id" THEN nextHookId
                ELSE IF f = "isActive"
                THEN IF "isActive" \in DOMAIN config THEN config.isActive
                     ELSE TRUE
                ELSE IF f = "retryConfig" THEN retryConfig
                ELSE config[f]]
    IN  /\ webhooks' = MapSet(webhooks, webhook)
        /\ hookStats' = MapSet(hookStats,
              [id |-> nextHookId, totalAttempts |-> 0,
               successfulDeliveries |-> 0, failedDeliveries |-> 0])
        /\ nextHookId' = nextHookId + 1
        /\ UNCHANGED <<deliveryQueue, rateLimitTracking, isProcessing,
                       inFlight, hookNow, intervalDue, attempted>>
        /\ UNCHANGED <<offVars, pgVars>>

\* removeWebhook(webhookId): also drops its statistics, its rate-limit
\* window and its queued deliveries; a delivery in flight stays in flight
RemoveWebhook(webhookId) ==
    /\ IF MapHas(webhooks, webhookId)
       THEN /\ webhooks' = MapDelete(webhooks, webhookId)
            /\ hookStats' = MapDelete(hookStats, webhookId)
            /\ rateLimitTracking' = MapDelete(rateLimitTracking, webhookId)
            /\ deliveryQueue' =
                  SelectSeq(deliveryQueue,
                            LAMBDA d : d.webhookId # webhookId)
       ELSE UNCHANGED <<webhooks, hookStats, rateLimitTracking,
                        deliveryQueue>>
    /\ UNCHANGED <<isProcessing, inFlight, hookNow, intervalDue,
                   nextHookId, attempted>>
    /\ UNCHANGED <<offVars, pgVars>>

\* updateWebhook(webhookId, updates): a new object { ...existing, ...updates }
UpdateWebhook(webhookId, updates) ==
    /\ webhooks' =
          IF MapHas(webhooks, webhookId)
          THEN MapSet(webhooks, SpreadAll(MapGet(webhooks, webhookId),
                                          updates))
          ELSE webhooks
    /\ UNCHANGED <<hookStats, deliveryQueue, rateLimitTracking,
                   isProcessing, inFlight, hookNow, intervalDue,
                   nextHookId, attempted>>
    /\ UNCHANGED <<offVars, pgVars>>

\* checkRateLimit(webhook) at Date.now() = now: whether the event may be
\* queued, and the tracking map after the call
checkRateLimit(webhook, tracking, now) ==
    IF "rateLimit" \notin DOMAIN webhook
    THEN [allowed |-> TRUE, tracking |-> tracking]
    ELSE IF \/ ~MapHas(tracking, webhook.id)
            \/ now >= MapGet(tracking, webhook.id).resetTime
    THEN [allowed |-> TRUE,
          tracking |-> MapSet(tracking,
              [id |-> webhook.id, requests |-> 1,
               resetTime |-> now + webhook.rateLimit.windowMs])]
    ELSE IF MapGet(tracking, webhook.id).requests
                >= webhook.rateLimit.maxRequests
    THEN [allowed |-> FALSE, tracking |-> tracking]
    ELSE [allowed |-> TRUE,
          tracking |-> MapSet(tracking,
              [MapGet(tracking, webhook.id) EXCEPT !.requests = @ + 1])]

\* queueDelivery(webhook, payload)
NewDelivery(id, webhook, eventType, now) ==
    [id |-> id, webhookId |-> webhook.id, event |-> eventType,
     attempt |-> 1, timestamp |-> now, status |-> "pending",
     nextRetryAt |-> 0]

\* getWebhooksForEvent for webhooks without a filterConfig
getWebhooksForEvent(eventType) ==
    SelectSeq(webhooks, LAMBDA w : w.isActive /\ eventType \in w.events)

\* the loop of triggerWebhooks from the i-th relevant webhook on: the
\* tracking map, the queue and the next fresh id after it
RECURSIVE TriggerFrom(_, _, _, _, _, _, _)
TriggerFrom(relevant, i, eventType, now, tracking, queue, nextId) ==
    IF i > Len(relevant)
    THEN [tracking |-> tracking, queue |-> queue, nextId |-> nextId]
    ELSE LET checked == checkRateLimit(relevant[i], tracking, now)
         IN  IF checked.allowed
             THEN TriggerFrom(relevant, i + 1, eventType, now,
                      checked.tracking,
                      Append(queue, NewDelivery(nextId, relevant[i],
                                                eventType, now)),
                      nextId + 1)
             ELSE TriggerFrom(relevant, i + 1, eventType, now,
                      checked.tracking, queue, nextId)

\* triggerGeofenceEvent / triggerWebhooks(eventType, data)
TriggerWebhooks(eventType) ==
    LET after == TriggerFrom(getWebhooksForEvent(eventType), 1, eventType,
                             hookNow, rateLimitTracking, deliveryQueue,
                             nextHookId)
    IN  /\ rateLimitTracking' = after.tracking
        /\ deliveryQueue' = after.queue
        /\ nextHookId' = after.nextId
        /\ UNCHANGED <<webhooks, hookStats, isProcessing, inFlight,
                       hookNow, intervalDue, attempted>>
        /\ UNCHANGED <<offVars, pgVars>>

\* calculateNextRetryTime(retryConfig, attempt) at Date.now() = now, with
\* jitter = Math.random() * 1000
RetryDelay(retryConfig, attempt) ==
    Min(IF retryConfig.backoffStrategy = "linear"
        THEN retryConfig.baseDelay * attempt
        ELSE retryConfig.baseDelay * Pow2(attempt - 1),
        retryConfig.maxDelay)

calculateNextRetryTime(retryConfig, attempt, now, jitter) ==
    now + RetryDelay(retryConfig, attempt) + jitter

\* the deliveries a pass picks: pending, or retrying and due
IsDue(d, now) ==
    \/ d.status = "pending"
    \/ d.status = "retrying" /\ (d.nextRetryAt = 0 \/ now >= d.nextRetryAt)

FirstN(q, n) == SubSeq(q, 1, Min(Len(q), n))

\* the clean-up at the end of a pass
KeepQueued(queue) ==
    SelectSeq(queue, LAMBDA d : d.status \in {"pending", "retrying"})

CountAttempt(log, id) ==
    IF MapHas(log, id)
    THEN MapSet(log, [MapGet(log, id) EXCEPT !.count = @ + 1])
    ELSE Append(log, [id |-> id, count |-> 1, reset |-> FALSE])

RECURSIVE CountAttempts(_, _)
CountAttempts(log, ids) ==
    IF ids = << >> THEN log
    ELSE CountAttempts(CountAttempt(log, Head(ids)), Tail(ids))

\* The callback of the processing interval: processDeliveryQueue up to its
\* await.  attemptDelivery runs synchronously up to its HTTP request: a
\* delivery whose webhook is missing or inactive fails at once, any other
\* is in flight with the webhook object it read.  With nothing in flight
\* Promise.all resolves without another task in between, so the clean-up
\* belongs to the same step.
ProcessDeliveryQueue ==
    LET batch == FirstN(SelectSeq(deliveryQueue,
                                  LAMBDA d : IsDue(d, hookNow)), BatchLimit)
        deliverable(d) ==
            /\ MapHas(webhooks, d.webhookId)
            /\ MapGet(webhooks, d.webhookId).isActive
        requested == SelectSeq(batch, deliverable)
        started ==
            [i \in 1..Len(deliveryQueue) |->
                IF /\ \E j \in 1..Len(batch) : batch[j].id = deliveryQueue[i].id
                   /\ ~deliverable(deliveryQueue[i])
                THEN [deliveryQueue[i] EXCEPT !.status = "failed"]
                ELSE deliveryQueue[i]]
    IN  /\ hookNow >= intervalDue
        /\ intervalDue' = hookNow + ProcessingInterval
        /\ IF isProcessing \/ Len(deliveryQueue) = 0
           THEN UNCHANGED <<deliveryQueue, isProcessing, inFlight,
                            attempted>>
           ELSE /\ inFlight' =
                      [j \in 1..Len(requested) |->
                          [id |-> requested[j].id,
                           attempt |-> requested[j].attempt,
                           webhook |-> MapGet(webhooks,
                                              requested[j].webhookId)]]
                /\ attempted' =
                      CountAttempts(attempted,
                          [j \in 1..Len(requested) |-> requested[j].id])
                /\ isProcessing' = (Len(requested) > 0)
                /\ deliveryQueue' = IF Len(requested) > 0 THEN started
                                    ELSE KeepQueued(started)
        /\ UNCHANGED <<webhooks, hookStats, rateLimitTracking, hookNow,
                       nextHookId>>
        /\ UNCHANGED <<offVars, pgVars>>

\* updateStats(webhookId, success): nothing for a webhook that was removed
updateStats(stats, webhookId, success) ==
    IF ~MapHas(stats, webhookId) THEN stats
    ELSE LET s == MapGet(stats, webhookId)
         IN  MapSet(stats,
               [s EXCEPT !.totalAttempts = @ + 1,
                         !.successfulDeliveries =
                             IF success THEN @ + 1 ELSE @,
                         !.failedDeliveries =
                             IF success THEN @ ELSE @ + 1])

\* mutation: a retry is scheduled while attempt <= maxRetries
SettledOnceMore(d, webhook, ok, now, jitter) ==
    IF ok THEN [d EXCEPT !.status = "success"]
    ELSE IF d.attempt <= webhook.retryConfig.maxRetries
    THEN [d EXCEPT !.status = "retrying",
                   !.attempt = @ + 1,
                   !.nextRetryAt =
                       calculateNextRetryTime(webhook.retryConfig,
                                              d.attempt + 1, now, jitter)]
    ELSE [d EXCEPT !.status = "failed"]

\* the delivery object after its request has settled
Settled(d, webhook, ok, now, jitter) ==
    IF ok THEN [d EXCEPT !.status = "success"]
    ELSE IF d.attempt < webhook.retryConfig.maxRetries
    THEN [d EXCEPT !.status = "retrying",
                   !.attempt = @ + 1,
                   !.nextRetryAt =
                       calculateNextRetryTime(webhook.retryConfig,
                                              d.attempt + 1, now, jitter)]
    ELSE [d EXCEPT !.status = "failed"]

\* The request of the k-th delivery in flight settles: the rest of
\* attemptDelivery, and with the last one of the pass the rest of
\* processDeliveryQueue (clean-up, isProcessing = false).  A delivery that
\* removeWebhook has dropped from the queue is changed out of sight.
HttpSettles(k, ok, jitter) ==
    LET flight == inFlight[k]
        queue == [i \in 1..Len(deliveryQueue) |->
                    IF deliveryQueue[i].id = flight.id
                    THEN Settled(deliveryQueue[i], flight.webhook, ok,
                                 hookNow, jitter)
                    ELSE deliveryQueue[i]]
        rest == [j \in 1..(Len(inFlight) - 1) |->
                    IF j < k THEN inFlight[j] ELSE inFlight[j + 1]]
    IN  /\ isProcessing
        /\ k \in 1..Len(inFlight)
        /\ hookStats' = updateStats(hookStats, flight.webhook.id, ok)
        /\ inFlight' = rest
        /\ IF Len(rest) = 0
           THEN /\ deliveryQueue' = KeepQueued(queue)
                /\ isProcessing' = FALSE
           ELSE /\ deliveryQueue' = queue
                /\ UNCHANGED isProcessing
        /\ UNCHANGED <<webhooks, rateLimitTracking, hookNow, intervalDue,
                       nextHookId, attempted>>
        /\ UNCHANGED <<offVars, pgVars>>

\* retryFailedDeliveries(): every failed delivery still in the queue is
\* pending again with attempt 1
RetryFailedDeliveries ==
    LET failed(d) == d.status = "failed"
    IN  /\ deliveryQueue' =
              [i \in 1..Len(deliveryQueue) |->
                  IF failed(deliveryQueue[i])
                  THEN [deliveryQueue[i] EXCEPT !.status = "pending",
                                                !.attempt = 1,
                                                !.nextRetryAt = 0]
                  ELSE deliveryQueue[i]]
        /\ attempted' =
              [i \in 1..Len(attempted) |->
                  IF \E j \in 1..Len(deliveryQueue) :
                        /\ deliveryQueue[j].id = attempted[i].id
                        /\ failed(deliveryQueue[j])
                  THEN [attempted[i] EXCEPT !.reset = TRUE]
                  ELSE attempted[i]]
        /\ UNCHANGED <<webhooks, hookStats, rateLimitTracking, isProcessing,
                       inFlight, hookNow, intervalDue, nextHookId>>
        /\ UNCHANGED <<offVars, pgVars>>

\* time passes
HookClock(step) ==
    /\ hookNow' = hookNow + step
    /\ UNCHANGED <<webhooks, hookStats, deliveryQueue, rateLimitTracking,
                   isProcessing, inFlight, intervalDue, nextHookId,
                   attempted>>
    /\ UNCHANGED <<offVars, pgVars>>

----------------------------------------------------------------------------
(* DataManager (src/unnamed/part_007:123-450): the stored geofence events  *)
(* and the sync queue.  AsyncStorage holds one value per key; getItem and  *)
(* setItem each take effect at one instant and always succeed.  An event   *)
(* is kept as its id, a sync-queue entry as the id of the event it carries.*)

\* config.maxEvents of the instance: the code's default is 10000
\* (part_007:141); scaled so that the stored list is trimmed
MaxStored == 2

\* storeGeofenceEvent(event) up to its first await: the event has its id
\* and getGeofenceEvents() has asked for the stored list
StoreGeofenceEvent ==
    /\ storeCalls' = Append(storeCalls,
          [id |-> nextDataId, pc |-> "load", local |-> << >>])
    /\ nextDataId' = nextDataId + 1
    /\ UNCHANGED <<storedEvents, storedQueue>>
    /\ UNCHANGED <<offVars, pgVars>>

\* events.slice(-maxEvents)
LastN(q, n) == IF Len(q) <= n THEN q ELSE SubSeq(q, Len(q) - n + 1, Len(q))

\* loadData resolves for the c-th call: events.push(eventWithId), the trim,
\* and saveData has asked for the write
LoadEvents(c) ==
    /\ storeCalls[c].pc = "load"
    /\ storeCalls' =
          [storeCalls EXCEPT ![c].pc = "save",
                             ![c].local =
                                 LastN(Append(storedEvents,
                                              storeCalls[c].id), MaxStored)]
    /\ UNCHANGED <<storedEvents, storedQueue, nextDataId>>
    /\ UNCHANGED <<offVars, pgVars>>

\* AsyncStorage.setItem of the events key takes effect; queueForSync has
\* asked for the stored queue
SaveEvents(c) ==
    /\ storeCalls[c].pc = "save"
    /\ storedEvents' = storeCalls[c].local
    /\ storeCalls' = [storeCalls EXCEPT ![c].pc = "queueLoad",
                                        ![c].local = << >>]
    /\ UNCHANGED <<storedQueue, nextDataId>>
    /\ UNCHANGED <<offVars, pgVars>>

\* queueForSync: loadData resolves, queue.push(entry), saveData asked
LoadQueue(c) ==
    /\ storeCalls[c].pc = "queueLoad"
    /\ storeCalls' =
          [storeCalls EXCEPT ![c].pc = "queueSave",
                             ![c].local = Append(storedQueue,
                                                 storeCalls[c].id)]
    /\ UNCHANGED <<storedEvents, storedQueue, nextDataId>>
    /\ UNCHANGED <<offVars, pgVars>>

\* AsyncStorage.setItem of the queue key takes effect and the call resolves
SaveQueue(c) ==
    /\ storeCalls[c].pc = "queueSave"
    /\ storedQueue' = storeCalls[c].local
    /\ storeCalls' = [storeCalls EXCEPT ![c].pc = "done",
                                        ![c].local = << >>]
    /\ UNCHANGED <<storedEvents, nextDataId>>
    /\ UNCHANGED <<offVars, pgVars>>

\* getGeofenceEvents() without a filter, and getSyncQueue(), when their
\* loadData resolves
getGeofenceEvents == storedEvents

getSyncQueue == storedQueue

----------------------------------------------------------------------------
(* Inputs *)

Region(id, latitude, radius, onEntry, onExit) ==
    [id |-> id, latitude |-> latitude, longitude |-> 0, radius |-> radius,
     notifyOnEntry |-> onEntry, notifyOnExit |-> onExit, metadata |-> {}]

\* the regions a caller adds: a 100 m circle at 0 and a 150 m circle at
\* 0.002 degree; the first with every combination of the notify flags
Regions ==
    {Region("g1", 0, 100, onEntry, onExit) : onEntry, onExit \in BOOLEAN}
    \cup {Region("g2", 2, 150, TRUE, TRUE)}

RegionIds == {"g1", "g2"}

Fix(latitude, timestamp) ==
    [latitude |-> latitude, longitude |-> 0, timestamp |-> timestamp]

\* fixes at 0 (inside g1 only), at 0.001 degree (111 m from g1: outside;
\* 111 m from g2: inside) and at 0.004 degree (outside both)
Fixes == {Fix(latitude, t) : latitude \in {0, 1, 4}, t \in Timestamps}

\* the fixes of the event pipeline: inside g1 and outside it
SyncFixes == {Fix(latitude, t) : latitude \in {0, 1}, t \in Timestamps}

Updates == {[isActive |-> FALSE], [isActive |-> TRUE]}

Sinks == {"s1", "s2"}

NetworkUpdates ==
    { [isConnected |-> TRUE, connectionType |-> "wifi"],
      [isConnected |-> FALSE, connectionType |-> "none"] }

\* Monday to Friday, 09:00 to 17:00
WorkHours ==
    [id |-> "work", startTime |-> <<9, 0>>, endTime |-> <<17, 0>>,
     daysOfWeek |-> {1, 2, 3, 4, 5}, isActive |-> TRUE]

Condition(isActive) ==
    [id |-> "cond", condition |-> "custom", operator |-> "equals",
     isActive |-> isActive]

Polygon(id, vertices, onEntry, onExit, timeRules) ==
    [id |-> id, type |-> "polygon", vertices |-> vertices,
     center |-> Point(0, 0), radius |-> 0,
     notifyOnEntry |-> onEntry, notifyOnExit |-> onExit, metadata |-> {},
     timeRules |-> timeRules, conditionalRules |-> << >>]

Circle(id, center, radius, onEntry, onExit, timeRules) ==
    [id |-> id, type |-> "circle", vertices |-> << >>,
     center |-> center, radius |-> radius,
     notifyOnEntry |-> onEntry, notifyOnExit |-> onExit, metadata |-> {},
     timeRules |-> timeRules, conditionalRules |-> << >>]

\* a square of 0.012 degree over four grid cells
Square == <<Point(0, 0), Point(0, 12), Point(12, 12), Point(12, 0)>>

\* the square with every combination of the notify flags, with and without
\* a time rule, and a 400 m circle in the cell (2, 0)
PgRegions ==
    {Polygon("p1", Square, onEntry, onExit, timeRules) :
        onEntry, onExit \in BOOLEAN, timeRules \in {<< >>, <<WorkHours>>}}
    \cup {Circle("c1", Point(25, 5), 400, TRUE, TRUE, << >>)}

PgRegionIds == {"p1", "c1"}

PgUpdates ==
    { [conditionalRules |-> <<Condition(FALSE)>>],
      [conditionalRules |-> << >>] }

\* inside the square; outside it in the cell (1, 0); at the centre of the
\* circle
PgPoints == {Point(5, 5), Point(15, 5), Point(25, 5)}

\* Monday 10:00 and Monday 18:00
PgTimes == {1440 + 600, 1440 + 1080}

----------------------------------------------------------------------------
(* Initial state: after new OfflineManager() *)

\* setupNetworkMonitoring: with a global navigator the constructor reports
\* isConnected: nav.onLine || true, which schedules a first sync attempt
InitOffline(hasNavigator, onLine, now) ==
    /\ geofences = << >>
    /\ pendingEvents = << >>
    /\ networkStatus =
          IF hasNavigator
          THEN [isConnected |-> TRUE,
                connectionType |-> IF onLine THEN "wifi" ELSE "none",
                isExpensive |-> FALSE, lastConnected |-> now]
          ELSE [isConnected |-> FALSE, connectionType |-> "none",
                isExpensive |-> FALSE, lastConnected |-> 0]
    /\ syncCallbacks = << >>
    /\ syncInProgress = FALSE
    /\ retryTimeouts = IF hasNavigator THEN SetToBag({DefaultDelay})
                       ELSE EmptyBag
    /\ flush = Idle
    /\ nextEventId = 1
    /\ delivered = {}
    /\ evalLog = << >>
    /\ stable = FALSE
    /\ lastOutcomes = << >>

\* nothing observed yet
InitWatch ==
    /\ backoff = << >>
    /\ sinkCalls = 0
    /\ lastReturn = [calls |-> 0, value |-> << >>]

\* after new PolygonGeofenceManager()
InitPolygon ==
    /\ pgGeofences = << >>
    /\ spatialIndex = << >>
    /\ hierarchies = << >>
    /\ checkLog = << >>

\* the native module has not been called
InitExpo == nativeRegions = << >>

\* after new WebhookManager(): nothing registered, the interval started
InitHooks ==
    /\ webhooks = << >>
    /\ deliveryQueue = << >>
    /\ hookStats = << >>
    /\ rateLimitTracking = << >>
    /\ isProcessing = FALSE
    /\ inFlight = << >>
    /\ hookNow = 0
    /\ intervalDue = ProcessingInterval
    /\ nextHookId = 1
    /\ attempted = << >>

\* after new DataManager() on an empty AsyncStorage
InitData ==
    /\ storedEvents = << >>
    /\ storedQueue = << >>
    /\ storeCalls = << >>
    /\ nextDataId = 1

Init ==
    /\ \E hasNavigator, onLine \in BOOLEAN, now \in Timestamps :
          InitOffline(hasNavigator, onLine, now)
    /\ InitPolygon
    /\ InitExpo
    /\ InitHooks
    /\ InitData
    /\ InitWatch
    /\ engine = "offline"

\* The Node / test environment: no global navigator, so disconnected.
\* A behaviour drives one of the two managers.
InitEngines ==
    /\ \E now \in Timestamps : InitOffline(FALSE, FALSE, now)
    /\ InitPolygon
    /\ InitExpo
    /\ InitHooks
    /\ InitData
    /\ InitWatch
    /\ engine \in {"offline", "polygon"}

\* A step of the OfflineManager / of the PolygonGeofenceManager instance
Offline ==
    /\ engine = "offline"
    /\ UNCHANGED <<engine, nativeRegions, watchVars, hookVars, dataVars>>

Polygons ==
    /\ engine = "polygon"
    /\ UNCHANGED <<engine, nativeRegions, watchVars, hookVars, dataVars>>

\* OfflineManager: region CRUD and evaluation, the network left as
\* constructed
NextEval ==
    \/ \E g \in Regions, now \in Timestamps : Offline /\ AddGeofence(g, now)
    \/ \E id \in RegionIds : Offline /\ RemoveGeofence(id)
    \/ \E u \in Updates : Offline /\ UpdateGeofence("g1", u)
    \/ \E location \in Fixes : Offline /\ EvaluateLocation(location)

\* PolygonGeofenceManager: region CRUD and checkLocation
NextPolygon ==
    \/ \E region \in PgRegions : Polygons /\ PgAddGeofence(region)
    \/ \E id \in PgRegionIds : Polygons /\ PgRemoveGeofence(id)
    \/ \E u \in PgUpdates : Polygons /\ PgUpdateGeofence("p1", u)
    \/ \E point \in PgPoints, timestamp \in PgTimes :
            Polygons /\ CheckLocation(point, timestamp)

\* The evaluation engines: every behaviour of either manager
NextEngines == NextEval \/ NextPolygon

SpecEngines == InitEngines /\ [][NextEngines]_vars

\* A promise that waits for no callback resolves in a microtask, before any
\* timer, interval or call of the host runs
MicrotaskPending == flush.phase = "awaiting" /\ flush.called = << >>

\* A call of the host, or a timer or interval callback
Task == Offline /\ ~MicrotaskPending

\* The event pipeline: one region that notifies both ways, the fixes, the
\* network, the sinks, the timers and the flush
NextSync ==
    \/ \E now \in Timestamps :
            Task /\ AddGeofence(Region("g1", 0, 100, TRUE, TRUE), now)
    \/ \E location \in SyncFixes :
            /\ Task
            /\ nextEventId <= MaxQueued
            /\ evaluateLocation(location)
            /\ UNCHANGED evalLog
    \/ \E status \in NetworkUpdates, now \in Timestamps :
            Task /\ UpdateNetworkStatus(status, now)
    \/ \E callback \in Sinks : Task /\ AddSyncCallback(callback)
    \/ \E callback \in Sinks : Task /\ RemoveSyncCallback(callback)
    \/ Task /\ ClearSyncedEvents
    \/ Task /\ ForceSyncAttempt
    \/ \E delay \in BagToSet(retryTimeouts) : Task /\ TimerFires(delay)
    \/ Task /\ PeriodicSync
    \/ \E outcomes \in [1..Len(flush.called) -> BOOLEAN] :
            Offline /\ BatchSettles(outcomes)

SpecSync == Init /\ [][NextSync]_vars

\* The event pipeline in an environment that may commit, at any moment, to
\* stay connected and to resolve every sink's promise: one region, one sink
\* (registered up to MaxCallbacks times).  The interval timer keeps firing, a
\* pending timeout fires and an awaited batch settles.
NextSyncFair ==
    \/ \E now \in Timestamps :
            Task /\ AddGeofence(Region("g1", 0, 100, TRUE, TRUE), now)
    \/ \E location \in SyncFixes :
            /\ Task
            /\ nextEventId <= MaxQueued
            /\ evaluateLocation(location)
            /\ UNCHANGED evalLog
    \/ \E status \in NetworkUpdates, now \in Timestamps :
            Task /\ UpdateNetworkStatus(status, now)
    \/ Task /\ AddSyncCallback("s1")
    \/ Task /\ RemoveSyncCallback("s1")
    \/ Task /\ ClearSyncedEvents
    \/ Task /\ ForceSyncAttempt
    \/ \E delay \in BagToSet(retryTimeouts) : Task /\ TimerFires(delay)
    \/ Task /\ PeriodicSync
    \/ \E outcomes \in [1..Len(flush.called) -> BOOLEAN] :
            Offline /\ BatchSettles(outcomes)
    \/ Task /\ Stabilise

SpecSyncFair ==
    /\ Init
    /\ [][NextSyncFair]_vars
    /\ WF_vars(Task /\ PeriodicSync)
    /\ WF_vars(\E delay \in BagToSet(retryTimeouts) :
                  Task /\ TimerFires(delay))
    /\ WF_vars(\E outcomes \in [1..Len(flush.called) -> BOOLEAN] :
                  Offline /\ BatchSettles(outcomes))

\* A step of the OfflineManager in a specification that watches the retry
\* chain; a call of the host, or a timer or interval callback, of that kind
Watched ==
    /\ engine = "offline"
    /\ UNCHANGED <<engine, nativeRegions, hookVars, dataVars>>

WatchedTask == Watched /\ ~MicrotaskPending

\* The events of the batch a timer-started flush has just failed to deliver
FailedNow ==
    IF /\ flush.phase = "awaiting"
       /\ flush' # flush
       /\ flush.origin = "timer"
       /\ ~AllResolve(lastOutcomes')
    THEN SeqToSet(flush.batches[flush.idx])
    ELSE {}

\* The retry chain after the step: each event still unsynced keeps the delay
\* of the last timer-started attempt (scheduleSyncAttempt(delay)) that failed
\* to deliver it
Chain ==
    LET left == {Unsynced(pendingEvents')[i].id :
                    i \in 1..Len(Unsynced(pendingEvents'))}
    IN  /\ backoff' = [id \in left \cap (DOMAIN backoff \cup FailedNow) |->
                          IF id \in FailedNow THEN flush.delay
                          ELSE backoff[id]]
        /\ UNCHANGED <<sinkCalls, lastReturn>>

\* The event pipeline with its retry chain watched: one region, one sink
NextBackoff ==
    \/ \E now \in Timestamps :
            /\ WatchedTask
            /\ AddGeofence(Region("g1", 0, 100, TRUE, TRUE), now)
            /\ Chain
    \/ \E location \in SyncFixes :
            /\ WatchedTask
            /\ nextEventId <= MaxQueued
            /\ evaluateLocation(location)
            /\ UNCHANGED evalLog
            /\ Chain
    \/ \E status \in NetworkUpdates, now \in Timestamps :
            WatchedTask /\ UpdateNetworkStatus(status, now) /\ Chain
    \/ WatchedTask /\ AddSyncCallback("s1") /\ Chain
    \/ WatchedTask /\ ForceSyncAttempt /\ Chain
    \/ \E delay \in BagToSet(retryTimeouts) :
            WatchedTask /\ TimerFires(delay) /\ Chain
    \/ WatchedTask /\ PeriodicSync /\ Chain
    \/ \E outcomes \in [1..Len(flush.called) -> BOOLEAN] :
            Watched /\ BatchSettles(outcomes) /\ Chain

SpecBackoff == Init /\ [][NextBackoff]_vars

\* How many invocations the scripted sink rejects before it resolves
RejectedCalls == 2

\* The scripted sink: its promise for the n-th invocation (counted from 1)
\* is rejected for n <= RejectedCalls and resolves afterwards
SinkResolves(n) == n > RejectedCalls

\* No trigger has fired yet: no timer pending, no flush in flight, the sink
\* never invoked
Quiet == TimerCount = 0 /\ flush.phase = "idle" /\ sinkCalls = 0

\* The host sets the scene, up to the first trigger
Setup == WatchedTask /\ Quiet /\ UNCHANGED watchVars

\* The awaited batch settles as the scripted sink decides
ScriptedSettle ==
    /\ Watched
    /\ BatchSettles([i \in 1..Len(flush.called) |->
                        SinkResolves(sinkCalls + i)])
    /\ sinkCalls' = sinkCalls + Len(flush.called)
    /\ UNCHANGED <<backoff, lastReturn>>

\* One scheduled sync attempt and nothing else: the host queues events and
\* registers the scripted sink; from the first trigger on only the pending
\* timers fire and the awaited batches settle
NextRetry ==
    \/ \E now \in Timestamps :
            Setup /\ AddGeofence(Region("g1", 0, 100, TRUE, TRUE), now)
    \/ \E location \in SyncFixes :
            /\ Setup
            /\ nextEventId <= MaxQueued
            /\ evaluateLocation(location)
            /\ UNCHANGED evalLog
    \/ \E status \in NetworkUpdates, now \in Timestamps :
            Setup /\ UpdateNetworkStatus(status, now)
    \/ Setup /\ AddSyncCallback("s1")
    \/ \E delay \in BagToSet(retryTimeouts) :
            WatchedTask /\ TimerFires(delay) /\ UNCHANGED watchVars
    \/ ScriptedSettle

\* What a call of syncPendingEvents made now returns before any await:
\* <<result>>, or << >> when it goes on to deliver batches
EarlyReturn ==
    IF syncInProgress \/ ~networkStatus.isConnected
    THEN <<Refused>>
    ELSE IF Len(Unsynced(pendingEvents)) = 0
    THEN <<[success |-> TRUE, synced |-> 0, failed |-> 0]>>
    ELSE << >>

\* A call of syncPendingEvents, by the host or by a timer callback, observed
Call ==
    /\ lastReturn' = [calls |-> 1 - lastReturn.calls, value |-> EarlyReturn]
    /\ UNCHANGED <<backoff, sinkCalls>>

\* The event pipeline with the calls of syncPendingEvents watched: one
\* region, one sink
NextGuard ==
    \/ \E now \in Timestamps :
            /\ WatchedTask
            /\ AddGeofence(Region("g1", 0, 100, TRUE, TRUE), now)
            /\ UNCHANGED watchVars
    \/ \E location \in SyncFixes :
            /\ WatchedTask
            /\ nextEventId <= MaxQueued
            /\ evaluateLocation(location)
            /\ UNCHANGED <<evalLog, watchVars>>
    \/ \E status \in NetworkUpdates, now \in Timestamps :
            /\ WatchedTask
            /\ UpdateNetworkStatus(status, now)
            /\ UNCHANGED watchVars
    \/ WatchedTask /\ AddSyncCallback("s1") /\ UNCHANGED watchVars
    \/ WatchedTask /\ Call /\ ForceSyncAttempt
    \/ \E delay \in BagToSet(retryTimeouts) :
            WatchedTask /\ Call /\ TimerFires(delay)
    \/ WatchedTask /\ PeriodicSync /\ UNCHANGED watchVars
    \/ \E outcomes \in [1..Len(flush.called) -> BOOLEAN] :
            Watched /\ BatchSettles(outcomes) /\ UNCHANGED watchVars

SpecGuard == Init /\ [][NextGuard]_vars

\* The batch sizes of the code, unscaled: the default of batchEvents' second
\* parameter, and what getBatchSizeForNetwork returns
DefaultBatchSize == 50

WifiBatchSize == 100

ExpensiveBatchSize == 10

CellularBatchSize == 50

\* The longest queue a batching behaviour starts from
MaxBatched == 11

getBatchSizeForNetwork(status) ==
    IF ~status.isConnected THEN 0
    ELSE IF status.connectionType = "wifi" THEN WifiBatchSize
    ELSE IF status.isExpensive THEN ExpensiveBatchSize
    ELSE CellularBatchSize

\* the connected networks a host reports
NetworkKinds ==
    {[isConnected |-> TRUE, connectionType |-> type, isExpensive |-> expensive] :
        type \in {"wifi", "cellular"}, expensive \in BOOLEAN}

\* The queue after g1 was entered and left n times in all: n unsynced events
Queue(n) ==
    [i \in 1..n |->
        NewEvent(i, IF i % 2 = 1 THEN "enter" ELSE "exit",
                 Region("g1", 0, 100, TRUE, TRUE), Fix((i + 1) % 2, 1))]

\* A connected manager (the browser environment) with one sink registered
\* and n events queued by evaluateLocation, whose timer is still pending
InitBatch ==
    /\ \E n \in 0..MaxBatched :
          /\ pendingEvents = Queue(n)
          /\ nextEventId = n + 1
          /\ geofences =
                <<[id |-> "g1", latitude |-> 0, longitude |-> 0,
                   radius |-> 100, notifyOnEntry |-> TRUE,
                   notifyOnExit |-> TRUE,
                   metadata |-> IF n = 0 THEN {}
                                ELSE {<<"wasInside", n % 2 = 1>>},
                   isActive |-> TRUE, lastEvaluated |-> 1]>>
    /\ networkStatus = [isConnected |-> TRUE, connectionType |-> "wifi",
                        isExpensive |-> FALSE, lastConnected |-> 1]
    /\ syncCallbacks = <<"s1">>
    /\ syncInProgress = FALSE
    /\ retryTimeouts = SetToBag({DefaultDelay})
    /\ flush = Idle
    /\ delivered = {}
    /\ evalLog = << >>
    /\ stable = FALSE
    /\ lastOutcomes = << >>
    /\ InitPolygon
    /\ InitExpo
    /\ InitHooks
    /\ InitData
    /\ InitWatch
    /\ engine = "offline"

\* A direct call of syncPendingEvents, batches of the code's own size
FlushUnscaled ==
    /\ Flush("direct", 0, retryTimeouts, DefaultBatchSize)
    /\ UNCHANGED <<pgVars, regionVars, queueVars, networkStatus, syncCallbacks,
                   delivered, stable, lastOutcomes>>

\* Batching: the network classification changes, the queue is flushed
NextBatch ==
    \/ \E status \in NetworkKinds, now \in Timestamps :
            Task /\ UpdateNetworkStatus(status, now)
    \/ Task /\ FlushUnscaled
    \/ \E outcomes \in [1..Len(flush.called) -> BOOLEAN] :
            Offline /\ BatchSettles(outcomes)

SpecBatch == InitBatch /\ [][NextBatch]_vars

\* the fixes of the ordering behaviours: inside g1 only and inside g2 only,
\* with timestamps that need not increase from one call to the next
OrderFixes == {Fix(latitude, t) : latitude \in {0, 1}, t \in {1, 2}}

\* Ordering: two regions that notify both ways, fixes in any order of
\* timestamps, one sink, direct and scheduled flushes
NextOrder ==
    \/ \E id \in RegionIds, now \in Timestamps :
            /\ Task
            /\ ~MapHas(geofences, id)
            /\ AddGeofence(Region(id, IF id = "g1" THEN 0 ELSE 2,
                                   IF id = "g1" THEN 100 ELSE 150,
                                   TRUE, TRUE), now)
    \/ \E location \in OrderFixes :
            Task /\ evaluateLocation(location) /\ UNCHANGED evalLog
    \/ \E now \in Timestamps :
            /\ Task
            /\ UpdateNetworkStatus([isConnected |-> TRUE,
                                    connectionType |-> "wifi"], now)
    \/ Task /\ syncCallbacks = << >> /\ AddSyncCallback("s1")
    \/ Task /\ ForceSyncAttempt
    \/ \E delay \in BagToSet(retryTimeouts) : Task /\ TimerFires(delay)
    \/ \E outcomes \in [1..Len(flush.called) -> BOOLEAN] :
            Offline /\ BatchSettles(outcomes)

SpecOrder == Init /\ [][NextOrder]_vars

\* a rectangle in the grid cell (2, 0)
Strip == <<Point(20, 0), Point(20, 8), Point(28, 8), Point(28, 0)>>

\* the regions of the index behaviours: p1 as the square or as the strip,
\* the circle c1 with a radius of 400 m or of 1500 m, and a 400 m circle c2
\* centred 0.001 degree west of the 180th meridian
IndexRegions ==
    { Polygon("p1", Square, TRUE, TRUE, << >>),
      Polygon("p1", Strip, TRUE, TRUE, << >>),
      Circle("c1", Point(25, 5), 400, TRUE, TRUE, << >>),
      Circle("c1", Point(25, 5), 1500, TRUE, TRUE, << >>),
      Circle("c2", Point(0, 179999), 400, TRUE, TRUE, << >>) }

IndexRegionIds == {"p1", "c1", "c2"}

\* updateGeofence(id, {vertices})
IndexUpdates == {[vertices |-> Square], [vertices |-> Strip]}

\* points in and around the regions, on both sides of the 180th meridian
IndexPoints ==
    { Point(5, 5), Point(11, 11), Point(15, 5), Point(24, 5), Point(25, 5),
      Point(0, 179998), Point(0, -179999) }

\* PolygonGeofenceManager: region CRUD with shapes that change
NextIndexCrud ==
    \/ \E region \in IndexRegions : Polygons /\ PgAddGeofence(region)
    \/ \E id \in IndexRegionIds : Polygons /\ PgRemoveGeofence(id)
    \/ \E u \in IndexUpdates : Polygons /\ PgUpdateGeofence("p1", u)

\* and checkLocation
NextIndex ==
    \/ NextIndexCrud
    \/ \E point \in IndexPoints, timestamp \in PgTimes :
            /\ Polygons
            /\ checkLocation(point, timestamp)
            /\ UNCHANGED <<checkLog, offVars>>

InitIndex ==
    /\ \E now \in Timestamps : InitOffline(FALSE, FALSE, now)
    /\ InitPolygon
    /\ InitExpo
    /\ InitHooks
    /\ InitData
    /\ InitWatch
    /\ engine = "polygon"

SpecIndexCrud == InitIndex /\ [][NextIndexCrud]_vars

SpecIndex == InitIndex /\ [][NextIndex]_vars

\* a polygon of two vertices: the diagonal of the square
Segment == <<Point(0, 0), Point(12, 12)>>

\* the regions of the shape behaviours: p1 as the two-vertex polygon or as
\* the square, and the 400 m circle c1
ShapeRegions ==
    { Polygon("p1", Segment, TRUE, TRUE, << >>),
      Polygon("p1", Square, TRUE, TRUE, << >>),
      Circle("c1", Point(25, 5), 400, TRUE, TRUE, << >>) }

\* on the diagonal, inside the square off the diagonal, outside both, and at
\* the centre of the circle
ShapePoints == {Point(5, 5), Point(3, 8), Point(15, 5), Point(25, 5)}

\* PolygonGeofenceManager: regions of any shape are added, removed and
\* checked
NextShapes ==
    \/ \E region \in ShapeRegions : Polygons /\ PgAddGeofence(region)
    \/ \E id \in PgRegionIds : Polygons /\ PgRemoveGeofence(id)
    \/ \E point \in ShapePoints, timestamp \in PgTimes :
            Polygons /\ CheckLocation(point, timestamp)

SpecShapes == InitIndex /\ [][NextShapes]_vars

\* validateGeofenceRegion, for coordinates in units of 0.001 degree
validateGeofenceRegion(region) ==
    /\ region.id # ""
    /\ region.latitude >= -90000 /\ region.latitude <= 90000
    /\ region.longitude >= -180000 /\ region.longitude <= 180000
    /\ region.radius > 0 /\ region.radius <= 10000

\* ExpoGeofencingImpl.addGeofence: throws for a region that does not
\* validate, hands any other to the native module.  Of the native module
\* only the calls are kept: per id, the region it was last called with.
ExpoAddGeofence(region) ==
    /\ IF validateGeofenceRegion(region)
       THEN nativeRegions' = MapSet(nativeRegions, region)
       ELSE UNCHANGED nativeRegions
    /\ UNCHANGED <<offVars, pgVars>>

\* A step of the ExpoGeofencingImpl instance
Expo == engine = "expo" /\ UNCHANGED <<engine, watchVars, hookVars, dataVars>>

\* circular regions at and beyond the limits: latitudes of 90 degrees and
\* 0.001 degree more, radii of 0, -1, 10000 and 10001 m, longitudes of 180
\* degrees and 0.001 degree more
LimitRegions ==
    {Region("g1", latitude, radius, TRUE, TRUE) :
        latitude \in {0, 90000, 90001, -90001},
        radius \in {100, 0, -1, 10000, 10001}}
    \cup {[Region("g2", 0, 100, TRUE, TRUE) EXCEPT !.longitude = longitude] :
            longitude \in {0, 180000, 180001, -180001}}

\* The add-region operations for circular regions: OfflineManager's and
\* ExpoGeofencingImpl's
NextLimits ==
    \/ \E g \in LimitRegions, now \in Timestamps :
            Offline /\ AddGeofence(g, now)
    \/ \E id \in RegionIds : Offline /\ RemoveGeofence(id)
    \/ \E g \in LimitRegions : Expo /\ ExpoAddGeofence(g)

InitLimits ==
    /\ \E now \in Timestamps : InitOffline(FALSE, FALSE, now)
    /\ InitPolygon
    /\ InitExpo
    /\ InitHooks
    /\ InitData
    /\ InitWatch
    /\ engine \in {"offline", "expo"}

SpecLimits == InitLimits /\ [][NextLimits]_vars

\* region.hierarchy as a caller builds it for a new node: the id of the
\* region, the parent ("" for a root) and no children yet
WithHierarchy(region, parentId) ==
    [f \in DOMAIN region \cup {"hierarchy"} |->
        IF f = "hierarchy"
        THEN [id |-> region.id, parentId |-> parentId, children |-> << >>,
              inheritSettings |-> TRUE]
        ELSE region[f]]

HierarchyIds == {"h1", "h2", "h3"}

\* the square under three ids, as a root or under any parent
HierarchyRegions ==
    {WithHierarchy(Polygon(id, Square, TRUE, TRUE, << >>), parentId) :
        id \in HierarchyIds, parentId \in HierarchyIds \cup {""}}

\* PolygonGeofenceManager: regions with a hierarchy are added, updated and
\* removed in any order
NextHierarchy ==
    \/ \E region \in HierarchyRegions : Polygons /\ PgAddGeofence(region)
    \/ \E id \in HierarchyIds : Polygons /\ PgRemoveGeofence(id)
    \/ Polygons /\ PgUpdateGeofence("h1", [notifyOnExit |-> FALSE])

SpecHierarchy == InitIndex /\ [][NextHierarchy]_vars

\* Monday to Friday, 22:00 to 06:00
NightHours ==
    [id |-> "night", startTime |-> <<22, 0>>, endTime |-> <<6, 0>>,
     daysOfWeek |-> {1, 2, 3, 4, 5}, isActive |-> TRUE]

\* a rule that is switched off
Inactive(rule) == [rule EXCEPT !.isActive = FALSE]

\* the square p1 with no rule, a day rule, an overnight rule, rules switched
\* off, and with conditional rules switched on and off
RuleRegions ==
    {[Polygon("p1", Square, TRUE, TRUE, timeRules)
        EXCEPT !.conditionalRules = conditionalRules] :
        timeRules \in {<< >>, <<WorkHours>>, <<NightHours>>,
                       <<Inactive(WorkHours)>>,
                       <<Inactive(WorkHours), Inactive(NightHours)>>},
        conditionalRules \in {<< >>, <<Condition(FALSE)>>,
                              <<Condition(TRUE), Condition(FALSE)>>,
                              <<Condition(TRUE)>>}}

\* inside the square, and outside it in a cell its bounding box spans
RulePoints == {Point(5, 5), Point(5, 11)}

\* Sunday 10:00, and on Monday the minutes at and next to the ends of the
\* two windows: 05:59, 06:00, 08:59, 09:00, 16:59, 17:00, 17:01, 21:59, 22:00
RuleTimes ==
    {600} \cup {1440 + m : m \in {359, 360, 539, 540, 1019, 1020, 1021,
                                  1319, 1320}}

\* getActiveGeofences(timestamp), as the ids in map order
PgGetActiveGeofences(timestamp) ==
    LET active == SelectSeq(pgGeofences,
                      LAMBDA g : isTimeRuleActive(g, timestamp)
                                 /\ areConditionalRulesActive(g))
    IN  [i \in 1..Len(active) |-> active[i].id]

\* PolygonGeofenceManager: a region with time rules and conditional rules
\* is added, removed and checked
NextRules ==
    \/ \E region \in RuleRegions : Polygons /\ PgAddGeofence(region)
    \/ Polygons /\ PgRemoveGeofence("p1")
    \/ \E point \in RulePoints, timestamp \in RuleTimes :
            Polygons /\ CheckLocation(point, timestamp)

SpecRules == InitIndex /\ [][NextRules]_vars

\* what a caller may pass as metadata: nothing, a label of its own, or the
\* key the managers keep the inside state under
CallerMetadata ==
    { {}, {<<"label", TRUE>>}, {<<"wasInside", TRUE>>} }

\* the circle g1 and the square p1 with any of these metadata
OwnedRegions ==
    {[Region("g1", 0, 100, TRUE, TRUE) EXCEPT !.metadata = metadata] :
        metadata \in CallerMetadata}

OwnedPgRegions ==
    {[Polygon("p1", Square, TRUE, TRUE, << >>) EXCEPT !.metadata = metadata] :
        metadata \in CallerMetadata}

\* updateGeofence(id, {notifyOnExit}) and updateGeofence(id, {metadata})
OwnedUpdates ==
    {[notifyOnExit |-> FALSE]}
    \cup {[metadata |-> metadata] : metadata \in CallerMetadata}

\* Both managers: a region is added and updated with metadata of the
\* caller's, and evaluated
NextOwned ==
    \/ \E g \in OwnedRegions, now \in Timestamps :
            Offline /\ AddGeofence(g, now)
    \/ \E u \in OwnedUpdates : Offline /\ UpdateGeofence("g1", u)
    \/ \E location \in SyncFixes : Offline /\ EvaluateLocation(location)
    \/ \E region \in OwnedPgRegions : Polygons /\ PgAddGeofence(region)
    \/ \E u \in OwnedUpdates : Polygons /\ PgUpdateGeofence("p1", u)
    \/ \E point \in RulePoints, timestamp \in PgTimes :
            Polygons /\ CheckLocation(point, timestamp)

SpecOwned == InitEngines /\ [][NextOwned]_vars

\* an object that lacks one of its properties
Without(object, key) == [f \in DOMAIN object \ {key} |-> object[f]]

\* a time rule whose startTime is no time of day ("abc"), and one whose
\* startTime is missing
BadRule == [WorkHours EXCEPT !.startTime = <<NaN>>]

BrokenRule == [WorkHours EXCEPT !.startTime = << >>]

\* circles of OfflineManager: g1 well-formed, g2 without radius or without
\* latitude
MalformedRegions ==
    { Region("g1", 0, 100, TRUE, TRUE),
      Without(Region("g2", 0, 100, TRUE, TRUE), "radius"),
      Without(Region("g2", 0, 100, TRUE, TRUE), "latitude") }

\* regions of PolygonGeofenceManager: the square p1 well-formed; over the
\* same cells c1 as a circle without center (whose vertices give it a
\* bounding box) and as the square with a time rule that cannot be parsed
\* or lacks its startTime; c2 as a polygon without vertices and as a circle
\* without radius
MalformedPgRegions ==
    { Polygon("p1", Square, TRUE, TRUE, << >>),
      Without([Circle("c1", Point(5, 5), 400, TRUE, TRUE, << >>)
                  EXCEPT !.vertices = Square], "center"),
      Polygon("c1", Square, TRUE, TRUE, <<BadRule>>),
      Polygon("c1", Square, TRUE, TRUE, <<BrokenRule>>),
      Polygon("c2", << >>, TRUE, TRUE, << >>),
      Circle("c2", Point(5, 5), 0, TRUE, TRUE, << >>) }

\* Both managers: well-formed and malformed regions are added and removed
\* in any order, and evaluated
NextMalformed ==
    \/ \E g \in MalformedRegions, now \in Timestamps :
            Offline /\ AddGeofence(g, now)
    \/ \E id \in RegionIds : Offline /\ RemoveGeofence(id)
    \/ \E location \in SyncFixes : Offline /\ EvaluateLocation(location)
    \/ \E region \in MalformedPgRegions : Polygons /\ PgAddGeofence(region)
    \/ \E id \in IndexRegionIds : Polygons /\ PgRemoveGeofence(id)
    \/ \E point \in RulePoints, timestamp \in PgTimes :
            Polygons /\ CheckLocation(point, timestamp)

SpecMalformed == InitEngines /\ [][NextMalformed]_vars

\* A step of the DataManager instance
Data ==
    /\ engine = "data"
    /\ UNCHANGED <<engine, nativeRegions, watchVars, hookVars>>

\* storeGeofenceEvent calls made in a behaviour
MaxStoreCalls == 3

\* a DataManager on an empty AsyncStorage, the other managers idle
InitStore ==
    /\ InitOffline(FALSE, FALSE, 1)
    /\ InitPolygon
    /\ InitExpo
    /\ InitHooks
    /\ InitData
    /\ InitWatch
    /\ engine = "data"

\* Concurrent storeGeofenceEvent calls: the host calls at any moment, and
\* each pending getItem or setItem of any call may be the next to resolve
NextStore ==
    \/ Data /\ nextDataId <= MaxStoreCalls /\ StoreGeofenceEvent
    \/ \E c \in DOMAIN storeCalls : Data /\ LoadEvents(c)
    \/ \E c \in DOMAIN storeCalls : Data /\ SaveEvents(c)
    \/ \E c \in DOMAIN storeCalls : Data /\ LoadQueue(c)
    \/ \E c \in DOMAIN storeCalls : Data /\ SaveQueue(c)

SpecStore == InitStore /\ [][NextStore]_vars

\* A step of the WebhookManager instance
Webhooks ==
    /\ engine = "webhook"
    /\ UNCHANGED <<engine, nativeRegions, watchVars, dataVars>>

\* webhooks registered at once, ids generated, the last instant of the clock
\* and the step of the clock, ms
MaxWebhooks == 1
MaxHookIds == 3
MaxClock == 15000
TimeStep == 2500

\* values of Math.random() * 1000: the least, and one just below the range
Jitters == {0, JitterRange - 1}

\* configurations for addWebhook: without a retryConfig, and with one that
\* allows no, one or two attempts, linear or exponential, up to a ceiling
\* above the interval
HookConfigs ==
    {[events |-> {"geofence.enter"}]}
    \cup {[events |-> {"geofence.enter"},
           retryConfig |-> [maxRetries |-> n, backoffStrategy |-> s,
                            baseDelay |-> 4000, maxDelay |-> 6000]] :
            n \in 0..2, s \in {"linear", "exponential"}}

InitWebhooks ==
    /\ \E now \in Timestamps : InitOffline(FALSE, FALSE, now)
    /\ InitPolygon
    /\ InitExpo
    /\ InitHooks
    /\ InitData
    /\ InitWatch
    /\ engine = "webhook"

\* WebhookManager: a webhook is added, switched off and on, removed; events
\* are triggered; the interval fires and requests settle as time passes
NextDelivery ==
    \/ \E config \in HookConfigs :
            /\ Webhooks
            /\ Len(webhooks) < MaxWebhooks
            /\ nextHookId <= MaxHookIds
            /\ AddWebhook(config)
    \/ \E id \in 1..MaxHookIds : Webhooks /\ RemoveWebhook(id)
    \/ \E id \in 1..MaxHookIds, active \in BOOLEAN :
            Webhooks /\ UpdateWebhook(id, [isActive |-> active])
    \/ /\ Webhooks
       /\ nextHookId <= MaxHookIds
       /\ TriggerWebhooks("geofence.enter")
    \/ Webhooks /\ ProcessDeliveryQueue
    \/ \E k \in 1..Len(inFlight), ok \in BOOLEAN, jitter \in Jitters :
            Webhooks /\ HttpSettles(k, ok, jitter)
    \/ Webhooks /\ RetryFailedDeliveries
    \/ Webhooks /\ hookNow < MaxClock /\ HookClock(TimeStep)

SpecDelivery == InitWebhooks /\ [][NextDelivery]_vars

\* ids generated in a behaviour of the rate limiter (webhooks and
\* deliveries), and the length of its window, ms
MaxRateIds == 5
WindowMs == 5000

\* configurations for addWebhook with a rateLimit of no, one or two
\* requests per window
RateConfigs ==
    {[events |-> {"geofence.enter"},
      rateLimit |-> [maxRequests |-> n, windowMs |-> WindowMs]] : n \in 0..2}

\* WebhookManager's rate limiter: a rate-limited webhook is added, switched
\* off and on, removed; events are triggered as time passes.  No delivery
\* is attempted, so the queue keeps every delivery of a registered webhook.
NextRate ==
    \/ \E config \in RateConfigs :
            /\ Webhooks
            /\ Len(webhooks) < MaxWebhooks
            /\ nextHookId <= MaxRateIds
            /\ AddWebhook(config)
    \/ \E id \in 1..MaxRateIds : Webhooks /\ RemoveWebhook(id)
    \/ \E id \in 1..MaxRateIds, active \in BOOLEAN :
            Webhooks /\ UpdateWebhook(id, [isActive |-> active])
    \/ /\ Webhooks
       /\ nextHookId <= MaxRateIds
       /\ TriggerWebhooks("geofence.enter")
    \/ Webhooks /\ hookNow < MaxClock /\ HookClock(TimeStep)

SpecRate == InitWebhooks /\ [][NextRate]_vars

\* attempts of the delivery whose request is in flight
MaxAttempt == 7

\* a retryConfig that always allows one more attempt
BackoffConfigs ==
    {[maxRetries |-> MaxAttempt + 1, backoffStrategy |-> s,
      baseDelay |-> b, maxDelay |-> m] :
        s \in {"linear", "exponential"},
        b \in {DefaultBaseDelay, 4000},
        m \in {6000, DefaultMaxDelay}}

\* One webhook and one delivery of it whose n-th request is in flight, the
\* earlier ones having failed; by then at least n intervals and n - 1
\* delays have passed
InitRetryTime ==
    /\ \E now \in Timestamps : InitOffline(FALSE, FALSE, now)
    /\ InitPolygon
    /\ InitExpo
    /\ InitData
    /\ InitWatch
    /\ engine = "webhook"
    /\ \E retryConfig \in BackoffConfigs, n \in 1..MaxAttempt :
          LET webhook == [id |-> 1, isActive |-> TRUE,
                          events |-> {"geofence.enter"},
                          retryConfig |-> retryConfig]
              sofar == (DefaultMaxDelay + JitterRange + ProcessingInterval)
                          * (n - 1)
          IN  /\ webhooks = <<webhook>>
              /\ hookStats = <<[id |-> 1, totalAttempts |-> n - 1,
                                successfulDeliveries |-> 0,
                                failedDeliveries |-> n - 1]>>
              /\ deliveryQueue =
                    <<[NewDelivery(2, webhook, "geofence.enter", 0)
                          EXCEPT !.attempt = n,
                                 !.status = IF n = 1 THEN "pending"
                                            ELSE "retrying",
                                 !.nextRetryAt = IF n = 1 THEN 0
                                                 ELSE sofar]>>
              /\ inFlight = <<[id |-> 2, attempt |-> n,
                               webhook |-> webhook]>>
              /\ attempted = <<[id |-> 2, count |-> n, reset |-> FALSE]>>
              /\ hookNow = sofar + ProcessingInterval
              /\ intervalDue = sofar + 2 * ProcessingInterval
    /\ rateLimitTracking = << >>
    /\ isProcessing = TRUE
    /\ nextHookId = 3

\* the request in flight settles, for any jitter
NextRetryTime ==
    \E ok \in BOOLEAN, jitter \in {0, 1, 500, JitterRange - 1} :
        Webhooks /\ HttpSettles(1, ok, jitter)

SpecRetryTime == InitRetryTime /\ [][NextRetryTime]_vars

\* the square with vertices (0,0), (0,10), (10,10), (10,0)
UnitSquare == <<Point(0, 0), Point(0, 10), Point(10, 10), Point(10, 0)>>

\* the polygons of the ray-casting behaviours: the square, a triangle and
\* the square with a notch cut from one side down to its centre
RayPolygons ==
    { UnitSquare,
      <<Point(0, 0), Point(0, 10), Point(10, 0)>>,
      <<Point(0, 0), Point(0, 10), Point(10, 10), Point(5, 5),
        Point(10, 0)>> }

\* points beside, inside, in the notch of and beyond the polygons
RayPoints ==
    {Point(latitude, longitude) :
        latitude \in {5, 8, 15}, longitude \in {-5, 5, 9, 15}}

\* PolygonGeofenceManager: p1 is added with one of the polygons, removed,
\* and checked against the points
NextRay ==
    \/ \E vertices \in RayPolygons :
            Polygons /\ PgAddGeofence(Polygon("p1", vertices, TRUE, TRUE,
                                              << >>))
    \/ Polygons /\ PgRemoveGeofence("p1")
    \/ \E point \in RayPoints, timestamp \in PgTimes :
            Polygons /\ CheckLocation(point, timestamp)

SpecRay == InitIndex /\ [][NextRay]_vars

\* the square p1 and the 400 m circle c1 in the cell next to it
QueryRegions ==
    { Polygon("p1", Square, TRUE, TRUE, << >>),
      Circle("c1", Point(25, 5), 400, TRUE, TRUE, << >>) }

\* a point in the square, one between the square and the circle, one in
\* the circle, and one four grid cells away from both
QueryPoints == {Point(5, 5), Point(15, 5), Point(25, 5), Point(5, 55)}

\* PolygonGeofenceManager: the two regions are added and removed, and
\* checked at points near and far
NextQuery ==
    \/ \E region \in QueryRegions : Polygons /\ PgAddGeofence(region)
    \/ \E id \in PgRegionIds : Polygons /\ PgRemoveGeofence(id)
    \/ \E point \in QueryPoints, timestamp \in PgTimes :
            Polygons /\ CheckLocation(point, timestamp)

SpecQuery == InitIndex /\ [][NextQuery]_vars

SpecRetry ==
    /\ Init
    /\ [][NextRetry]_vars
    /\ WF_vars(\E delay \in BagToSet(retryTimeouts) :
                  WatchedTask /\ TimerFires(delay) /\ UNCHANGED watchVars)
    /\ WF_vars(ScriptedSettle)

----------------------------------------------------------------------------
(* Properties of the evaluation engines *)

\* the event types one evaluation returned for a region, in order
TypesFor(entry, id) ==
    LET own == SelectSeq(entry.events, LAMBDA e : e[2] = id)
    IN  [i \in 1..Len(own) |-> own[i][1]]

\* the state OfflineManager stores for a region after the k-th logged
\* evaluation: nothing but an evaluation changes it while the log is kept
StoredAfter(k, id) ==
    IF k < Len(evalLog) THEN id \in evalLog[k + 1].before
    ELSE WasInside(MapGet(geofences, id).metadata)

\* the state PolygonGeofenceManager stores after the k-th logged check
PgStoredAfter(k, id) ==
    IF k < Len(checkLog) THEN id \in checkLog[k + 1].before
    ELSE WasInside(MapGet(pgGeofences, id).metadata)

\* the regions the k-th logged check evaluated: candidates that pass the gate
PgEvaluated(k) == checkLog[k].evaluated

\* three consecutive evaluations of an active region that notifies both
\* ways and starts Outside: a fix inside, one outside, one inside
C1_Crossing(id, k) ==
    /\ k + 2 <= Len(evalLog)
    /\ MapHas(geofences, id)
    /\ MapGet(geofences, id).notifyOnEntry
    /\ MapGet(geofences, id).notifyOnExit
    /\ \A j \in k..(k + 2) : id \in evalLog[j].active
    /\ id \notin evalLog[k].before
    /\ id \in evalLog[k].within
    /\ id \notin evalLog[k + 1].within
    /\ id \in evalLog[k + 2].within

\* C1: for an active region with both notify flags that starts Outside,
\* evaluateLocation over a fix inside, a fix outside and a fix inside returns
\* exactly enter, exit, enter for the region: one event per evaluation, in
\* fix order.
C1_EnterExitEnter ==
    \A id \in RegionIds, k \in 1..Len(evalLog) :
        C1_Crossing(id, k) =>
            /\ TypesFor(evalLog[k], id) = <<"enter">>
            /\ TypesFor(evalLog[k + 1], id) = <<"exit">>
            /\ TypesFor(evalLog[k + 2], id) = <<"enter">>

C1_Witness ==
    \E id \in RegionIds, k \in 1..Len(evalLog) :
        /\ C1_Crossing(id, k)
        /\ TypesFor(evalLog[k + 2], id) = <<"enter">>

\* C2: when the same fix is evaluated twice in a row (no region changed in
\* between), a region stored Inside after the first evaluation gets no event
\* from the second OfflineManager.evaluateLocation and is not in the entered
\* list of the second PolygonGeofenceManager.checkLocation.
C2_SameFixTwice ==
    /\ \A id \in RegionIds, k \in 1..Len(evalLog) :
          /\ k < Len(evalLog)
          /\ evalLog[k + 1].location = evalLog[k].location
          /\ evalLog[k + 1].active = evalLog[k].active
          /\ id \in evalLog[k + 1].before
          => TypesFor(evalLog[k + 1], id) = << >>
    /\ \A id \in PgRegionIds, k \in 1..Len(checkLog) :
          /\ k < Len(checkLog)
          /\ checkLog[k + 1].point = checkLog[k].point
          /\ checkLog[k + 1].timestamp = checkLog[k].timestamp
          /\ id \in checkLog[k + 1].before
          => id \notin checkLog[k + 1].result.entered

\* the same fix inside an active region twice: entered, then nothing
C2_Witness ==
    \E id \in RegionIds :
        /\ Len(evalLog) >= 2
        /\ evalLog[2].location = evalLog[1].location
        /\ evalLog[2].active = evalLog[1].active
        /\ id \in evalLog[2].active
        /\ id \in evalLog[2].within
        /\ TypesFor(evalLog[1], id) = <<"enter">>
        /\ id \in evalLog[2].before

\* the same point and time twice for a polygon region: entered, then Inside
\* and not entered again
C2_WitnessPolygon ==
    \E id \in PgRegionIds :
        /\ Len(checkLog) >= 2
        /\ checkLog[2].point = checkLog[1].point
        /\ checkLog[2].timestamp = checkLog[1].timestamp
        /\ id \in checkLog[1].result.entered
        /\ id \in checkLog[2].before
        /\ id \in checkLog[2].result.inside

\* C3: OfflineManager.evaluateLocation tracks occupancy whatever the notify
\* flags are: after every call the stored wasInside of an evaluated region
\* says whether the fix was within its radius; a region with notifyOnEntry
\* false and notifyOnExit true gets an exit when a fix inside is followed by
\* a fix outside; a region with notifyOnEntry true and notifyOnExit false
\* gets an enter on every crossing from outside to inside.
C3_TracksOccupancy ==
    \A id \in RegionIds, k \in 1..Len(evalLog) :
        id \in evalLog[k].active =>
            /\ StoredAfter(k, id) = (id \in evalLog[k].within)
            /\ /\ k < Len(evalLog)
               /\ id \in evalLog[k + 1].active
               /\ id \in evalLog[k].within
               /\ id \notin evalLog[k + 1].within
               /\ MapGet(geofences, id).notifyOnExit
               => TypesFor(evalLog[k + 1], id) = <<"exit">>
            /\ /\ k < Len(evalLog)
               /\ id \in evalLog[k + 1].active
               /\ id \notin evalLog[k].within
               /\ id \in evalLog[k + 1].within
               /\ MapGet(geofences, id).notifyOnEntry
               => TypesFor(evalLog[k + 1], id) = <<"enter">>

\* C4: after checkLocation, the stored inside state of every candidate
\* region that passes the activation gate equals the containment result of
\* that call.
C4_StateIsContainment ==
    \A k \in 1..Len(checkLog) : \A id \in PgEvaluated(k) :
        PgStoredAfter(k, id) =
            isPointInside(checkLog[k].point, MapGet(pgGeofences, id))

\* a region stored Inside that notifies no exit is checked from outside: no
\* event, and the stored state follows
C4_Witness ==
    \E k \in 1..Len(checkLog) : \E id \in PgEvaluated(k) :
        /\ id \in checkLog[k].before
        /\ ~MapGet(pgGeofences, id).notifyOnExit
        /\ ~isPointInside(checkLog[k].point, MapGet(pgGeofences, id))
        /\ ~PgStoredAfter(k, id)

\* C5: an evaluation skips a region that fails the activation gate (for
\* PolygonGeofenceManager the time and conditional rules, for OfflineManager
\* isActive = false): its stored state is unchanged and it gets no event; so
\* a region stored Inside that was skipped and is eligible again with the
\* device inside gets no enter.
C5_GatedRegionSkipped ==
    /\ \A id \in Ids(geofences), k \in 1..Len(evalLog) :
          id \notin evalLog[k].active =>
              /\ StoredAfter(k, id) = (id \in evalLog[k].before)
              /\ TypesFor(evalLog[k], id) = << >>
              /\ /\ k < Len(evalLog)
                 /\ id \in evalLog[k].before
                 /\ id \in evalLog[k + 1].active
                 /\ id \in evalLog[k + 1].within
                 => TypesFor(evalLog[k + 1], id) = << >>
    /\ \A id \in Ids(pgGeofences), k \in 1..Len(checkLog) :
          ~PassesGate(MapGet(pgGeofences, id), checkLog[k].timestamp) =>
              /\ PgStoredAfter(k, id) = (id \in checkLog[k].before)
              /\ id \notin checkLog[k].result.inside
              /\ id \notin checkLog[k].result.entered
              /\ id \notin checkLog[k].result.exited
              /\ /\ k < Len(checkLog)
                 /\ id \in checkLog[k].before
                 /\ id \in PgEvaluated(k + 1)
                 /\ isPointInside(checkLog[k + 1].point,
                                  MapGet(pgGeofences, id))
                 => id \notin checkLog[k + 1].result.entered

\* Inside, then deactivated and evaluated, then active again with the fix
\* still inside: no event
C5_Witness ==
    \E id \in Ids(geofences) :
        /\ Len(evalLog) >= 3
        /\ TypesFor(evalLog[1], id) = <<"enter">>
        /\ id \notin evalLog[2].active
        /\ id \in evalLog[2].before
        /\ id \in evalLog[3].active
        /\ id \in evalLog[3].within
        /\ TypesFor(evalLog[3], id) = << >>

\* Inside during working hours, checked after hours, still stored Inside
C5_WitnessPolygon ==
    \E id \in Ids(pgGeofences) :
        /\ Len(checkLog) >= 2
        /\ id \in checkLog[1].result.entered
        /\ ~PassesGate(MapGet(pgGeofences, id), checkLog[2].timestamp)
        /\ isPointInside(checkLog[2].point, MapGet(pgGeofences, id))
        /\ PgStoredAfter(2, id)

----------------------------------------------------------------------------
(* Properties of the event pipeline *)

\* the ids evaluateLocation has given out
Enqueued == 1..(nextEventId - 1)

InQueue(events, id) == \E i \in 1..Len(events) : events[i].id = id

IsSynced(events, id) ==
    \E i \in 1..Len(events) : events[i].id = id /\ events[i].synced

IsUnsynced(events, id) ==
    \E i \in 1..Len(events) : events[i].id = id /\ ~events[i].synced

\* a step in which the await of a batch settles, and one in which the flush
\* ends with it
SettleStep == flush.phase = "awaiting" /\ flush' # flush

FlushEnds == flush.phase = "awaiting" /\ flush'.phase = "idle"

\* the ids of the batch that is awaited
AwaitedBatch == SeqToSet(flush.batches[flush.idx])

\* some / every promise of the batch settled in this step was rejected
Rejected(outcomes) == \E i \in DOMAIN outcomes : ~outcomes[i]

\* C6: no event is lost before delivery: every event evaluateLocation
\* returned stays in pendingEvents, whatever evaluations, network changes,
\* timer firings, failed flushes and clearSyncedEvents calls follow, until a
\* flush has delivered its batch to a sink.
C6_NoLossBeforeDelivery ==
    \A id \in Enqueued : InQueue(pendingEvents, id) \/ id \in delivered

\* C7: once the network stays connected and every sink's promise resolves,
\* every event in the queue is eventually removed from it, and removed after
\* a sink was handed it and resolved, provided a sink stays registered (the
\* second obligation ends at a moment with no sink registered); the interval
\* timer and the scheduled attempts alone drive this, no direct flush.
C7_EventuallyDelivered ==
    \A id \in 1..MaxQueued :
        /\ (stable /\ InQueue(pendingEvents, id))
              ~> ~InQueue(pendingEvents, id)
        /\ (stable /\ InQueue(pendingEvents, id))
              ~> \/ ~InQueue(pendingEvents, id) /\ id \in delivered
                 \/ syncCallbacks = << >>

\* the environment has committed, and an event went to a sink and is gone
C7_Witness ==
    /\ stable
    /\ syncCallbacks # << >>
    /\ \E id \in delivered : ~InQueue(pendingEvents, id)

\* C8: a batch is handed to every callback registered when it is sent; when
\* every promise resolves, the events of the batch are marked synced, and
\* gone from the queue once the flush ends; when any promise is rejected, no
\* event of the batch is marked or removed.
C8_AllSinksOrNothing ==
    [][/\ /\ flush'.phase = "awaiting"
          /\ flush.phase = "idle" \/ flush'.idx # flush.idx
          => flush'.called = syncCallbacks
       /\ SettleStep =>
            /\ Len(lastOutcomes') = Len(flush.called)
            /\ ~Rejected(lastOutcomes') =>
                  \A id \in AwaitedBatch :
                      /\ ~IsUnsynced(pendingEvents', id)
                      /\ FlushEnds => ~InQueue(pendingEvents', id)
            /\ Rejected(lastOutcomes') =>
                  \A id \in AwaitedBatch :
                      IsUnsynced(pendingEvents, id) =>
                          IsUnsynced(pendingEvents', id)
            /\ FlushEnds =>
                  \A id \in Enqueued : ~IsSynced(pendingEvents', id)]_vars

\* two sinks were handed the batch, one promise was rejected: the event
\* stays unsynced in the queue
C8_Witness ==
    /\ Len(lastOutcomes) = 2
    /\ lastOutcomes[1] # lastOutcomes[2]
    /\ flush.phase = "idle"
    /\ \E id \in delivered : IsUnsynced(pendingEvents, id)

\* both promises resolved and the batch is gone from the queue
C8_WitnessResolved ==
    /\ Len(lastOutcomes) = 2
    /\ ~Rejected(lastOutcomes)
    /\ flush.phase = "idle"
    /\ \E id \in delivered : ~InQueue(pendingEvents, id)

\* C9: an event is marked synced, and removed, only on confirmed delivery:
\* at least one sink was invoked with a batch that holds it and resolved.
\* In particular a flush with no callback registered marks and removes
\* nothing.
C9_SyncedOnlyIfDelivered ==
    \A id \in Enqueued :
        IsSynced(pendingEvents, id) \/ ~InQueue(pendingEvents, id)
            => id \in delivered

\* C10: whenever a flush ends with at least one failed batch, started by a
\* timer or by a direct call, also when other batches of it succeeded, the
\* failed events stay unsynced and a retry is scheduled, with the doubled
\* delay when a timer started it.
C10_FailedFlushRetried ==
    [][FlushEnds /\ (flush.failedCount > 0 \/ Rejected(lastOutcomes')) =>
          /\ Rejected(lastOutcomes') =>
                \A id \in AwaitedBatch : IsUnsynced(pendingEvents', id)
          /\ \E delay \in BagToSet(retryTimeouts') :
                /\ CopiesIn(delay, retryTimeouts')
                      > CopiesIn(delay, retryTimeouts)
                /\ flush.origin = "timer" =>
                      delay = Min(flush.delay * 2, MaxDelay)]_vars

----------------------------------------------------------------------------
(* Properties of triggers, retries and the flush guard *)

\* The delays of the timers the step schedules
ScheduledNow ==
    {d \in BagToSet(retryTimeouts') :
        CopiesIn(d, retryTimeouts') > CopiesIn(d, retryTimeouts)}

\* C11: backoff is monotone and capped.  While an event stays unsynced after
\* a failed timer-started flush attempt, no sync attempt is scheduled with a
\* delay below the delay of that failed attempt, whoever schedules it (the
\* retry of the attempt, a new evaluateLocation, a reconnect, the periodic
\* timer); and no scheduled delay exceeds 60000 ms.
C11_BackoffMonotone ==
    [][\A d \in ScheduledNow :
          /\ d <= MaxDelay
          /\ \A id \in DOMAIN backoff' : d >= backoff'[id]]_vars

\* One attempt is scheduled for a queue of unsynced events, the manager is
\* connected and the scripted sink is the one registered callback
OneAttemptScheduled ==
    /\ retryTimeouts = SetToBag({DefaultDelay})
    /\ flush.phase = "idle"
    /\ sinkCalls = 0
    /\ networkStatus.isConnected
    /\ syncCallbacks = <<"s1">>
    /\ Len(Unsynced(pendingEvents)) > 0

\* The chain is over: nothing pending, nothing in flight, the queue empty
ChainDone ==
    /\ TimerCount = 0
    /\ flush.phase = "idle"
    /\ pendingEvents = << >>

\* C12 (as stated): connected, events pending, one sink that rejects its
\* first two invocations and resolves the third: one scheduled sync attempt,
\* no other trigger firing, leads to exactly three invocations of the sink,
\* after which every event is synced and the queue is empty.
C12_ThreeInvocations ==
    /\ OneAttemptScheduled ~> (ChainDone /\ sinkCalls = RejectedCalls + 1)
    /\ [](Len(syncCallbacks) <= 1 => sinkCalls <= RejectedCalls + 1)

\* C12 (amended): the same, for pending events that fit in one batch
\* (Enqueued: the events queued so far).
C12_ThreeInvocationsOneBatch ==
    /\ (OneAttemptScheduled /\ Len(Unsynced(pendingEvents)) <= BatchSize)
          ~> (ChainDone /\ sinkCalls = RejectedCalls + 1)
    /\ []((Len(syncCallbacks) <= 1 /\ nextEventId - 1 <= BatchSize)
            => sinkCalls <= RejectedCalls + 1)

\* the third attempt, at 4000 ms, has delivered the event
C12_Witness ==
    /\ ChainDone
    /\ sinkCalls = RejectedCalls + 1
    /\ syncCallbacks = <<"s1">>
    /\ delivered = {1}

\* The step is a call of syncPendingEvents
Called == lastReturn'.calls # lastReturn.calls

\* The flush in flight goes on to its next batch, or ends
FlushGoesOn ==
    \/ flush' = Idle
    \/ /\ flush'.phase = "awaiting"
       /\ flush'.origin = flush.origin
       /\ flush'.batches = flush.batches
       /\ flush'.idx = flush.idx + 1

\* C13: the flush-in-progress guard.  Never are two executions of
\* syncPendingEvents delivering batches: while one is in flight no other
\* starts, and a call made meanwhile returns {success: false, synced: 0,
\* failed: 0} without invoking a sink or touching the queue.  syncInProgress
\* is set exactly while a flush is executing: it is false again once the
\* flush has ended, whether its batches succeeded or failed, and stays false
\* when the queue was empty.
C13_FlushGuard ==
    /\ [](syncInProgress <=> flush.phase = "awaiting")
    /\ [][(syncInProgress /\ Called) =>
             /\ lastReturn'.value = <<Refused>>
             /\ flush' = flush
             /\ pendingEvents' = pendingEvents
             /\ delivered' = delivered
             /\ syncInProgress']_vars
    /\ [][(flush.phase = "awaiting" /\ flush' # flush) => FlushGoesOn]_vars
    /\ [][(Called /\ lastReturn'.value # << >>) =>
             syncInProgress' = syncInProgress]_vars

\* a call was refused while a two-batch flush was awaiting its second batch
C13_Witness ==
    /\ syncInProgress
    /\ flush.idx = 2
    /\ lastReturn.value = <<Refused>>

\* A manual flush (forceSyncAttempt or a direct syncPendingEvents) starts
ManualFlushStarts ==
    /\ flush.phase = "idle"
    /\ flush'.phase = "awaiting"
    /\ flush'.origin = "direct"

\* C14: a manual flush cancels the pending retry timers.  Once a manual
\* flush is invoked at most one retry timer is pending, and no timer that was
\* pending when it was invoked fires a sync attempt of its own later: while
\* the manual flush is in flight (when no new timer can be scheduled) no
\* timer fires.
C14_ManualFlushCancelsTimers ==
    /\ [][ManualFlushStarts => TimerCount' <= 1]_vars
    /\ [][(flush.phase = "awaiting" /\ flush.origin = "direct") =>
             TimerCount' >= TimerCount]_vars

\* C15: a network change while a flush is in flight does not decide its
\* outcome.  An updateNetworkStatus call during the flight leaves the flush,
\* the queue and the guard as they are; and when the awaited batch settles,
\* connected or not, its events become synced if and only if every sink's
\* promise for that batch resolved.
C15_SinksDecideOutcome ==
    /\ [][(flush.phase = "awaiting" /\ networkStatus' # networkStatus) =>
             /\ flush' = flush
             /\ pendingEvents' = pendingEvents
             /\ syncInProgress' = syncInProgress]_vars
    /\ [][SettleStep =>
             \A id \in AwaitedBatch :
                 /\ IsUnsynced(pendingEvents, id)
                 /\ ~IsUnsynced(pendingEvents', id)
                       <=> ~Rejected(lastOutcomes')]_vars

\* the network went down during a two-batch flush: the first batch is
\* marked synced, the second is awaited while disconnected
C15_Witness ==
    /\ flush.phase = "awaiting"
    /\ flush.idx = 2
    /\ ~networkStatus.isConnected
    /\ \A id \in SeqToSet(flush.batches[1]) : IsSynced(pendingEvents, id)

\* An updateNetworkStatus call takes the manager from disconnected to
\* connected
Reconnects == ~networkStatus.isConnected /\ networkStatus'.isConnected

\* C16: every updateNetworkStatus call that takes isConnected from false to
\* true schedules a sync attempt, also when it arrives while a flush is in
\* flight; a call that leaves the manager connected, or disconnected,
\* schedules nothing.
C16_ReconnectSchedules ==
    /\ [][Reconnects => TimerCount' = TimerCount + 1]_vars
    /\ [][(networkStatus' # networkStatus /\ ~Reconnects) =>
             retryTimeouts' = retryTimeouts]_vars

----------------------------------------------------------------------------
(* Properties of batching and ordering *)

\* The step hands a batch to the sinks: the first of a flush, or its next
Handed ==
    /\ flush'.phase = "awaiting"
    /\ flush.phase = "idle" \/ flush'.idx # flush.idx

\* C17: the batch size follows the network classification: every batch
\* handed to the sinks has at most getBatchSizeForNetwork() events: 100 on
\* wifi, 10 on an expensive link that is not wifi, 50 otherwise.
C17_BatchSizeByNetwork ==
    [][Handed => Len(flush'.batches[flush'.idx])
                    <= getBatchSizeForNetwork(networkStatus')]_vars

\* The event of the queue with this id
EventOf(events, id) ==
    events[CHOOSE i \in 1..Len(events) : events[i].id = id]

RECURSIVE Flatten(_)
\* The ids of the batches of a flush, in the order of their delivery
Flatten(batches) ==
    IF batches = << >> THEN << >>
    ELSE Head(batches) \o Flatten(Tail(batches))

\* Event a must not be delivered after event b: it is older, or as old and
\* an enter where b is an exit
Precedes(a, b) ==
    \/ a.timestamp < b.timestamp
    \/ a.timestamp = b.timestamp /\ a.type = "enter" /\ b.type = "exit"

\* C18: events are delivered in priority order.  Across the batches of one
\* flush the oldest timestamp comes first, and of two events with the same
\* timestamp the enter comes before the exit, also for the exit and the
\* enter one fix produced and for fixes whose timestamps do not increase.
C18_PriorityOrder ==
    [][(flush.phase = "idle" /\ flush'.phase = "awaiting") =>
          LET order == Flatten(flush'.batches)
          IN  \A i, j \in 1..Len(order) :
                  i < j => ~Precedes(EventOf(pendingEvents', order[j]),
                                     EventOf(pendingEvents', order[i]))]_vars

----------------------------------------------------------------------------
(* Properties of the spatial index *)

\* C19: the index is sound.  After any sequence of addGeofence,
\* updateGeofence, removeGeofence and checkLocation, every live region that
\* the containment evaluator judges to contain a point is among the
\* candidates getCandidateGeofences returns for that point.
C19_IndexSound ==
    \A point \in IndexPoints :
        \A i \in 1..Len(pgGeofences) :
            isPointInside(point, pgGeofences[i])
                => pgGeofences[i].id
                      \in getCandidateGeofences(pgGeofences, spatialIndex,
                                                point)

\* The live regions whose current bounding box spans the cell
Spanning(cell) ==
    {pgGeofences[i].id : i \in {k \in 1..Len(pgGeofences) :
        cell \in getGridCells(pgGeofences[k].boundingBox)}}

\* C20: the index is exact under region CRUD.  After any sequence of
\* addGeofence, updateGeofence and removeGeofence, re-adding an id with
\* another shape included, the buckets are those of the cells some live
\* region's current bounding box spans, each holds exactly the ids of these
\* regions, and none is empty; with every region removed no bucket is left.
C20_IndexExact ==
    /\ \A cell \in DOMAIN spatialIndex :
          /\ spatialIndex[cell] # {}
          /\ spatialIndex[cell] = Spanning(cell)
    /\ \A i \in 1..Len(pgGeofences) :
          getGridCells(pgGeofences[i].boundingBox) \subseteq DOMAIN spatialIndex
    /\ pgGeofences = << >> => spatialIndex = << >>

----------------------------------------------------------------------------
(* Properties of region creation *)

\* C21: adding a region whose id is already live is rejected and changes
\* nothing.  An addGeofence call of PolygonGeofenceManager with the id of a
\* live region leaves the region set and the spatial index as they are, the
\* stored inside/outside state with them; an addGeofence call of
\* OfflineManager with the id of a live region leaves the region set as it is.
C21_DuplicateRejected ==
    /\ [][\A region \in PgRegions :
            (/\ engine = "polygon"
             /\ MapHas(pgGeofences, region.id)
             /\ PgAddGeofence(region))
                => UNCHANGED <<pgGeofences, spatialIndex>>]_vars
    /\ [][\A g \in Regions, now \in Timestamps :
            (/\ engine = "offline"
             /\ MapHas(geofences, g.id)
             /\ AddGeofence(g, now))
                => UNCHANGED geofences]_vars

\* C22: a polygon with fewer than 3 vertices is rejected when it is created.
\* An addGeofence call with such a polygon leaves the region set and the
\* spatial index as they are, and no checkLocation call returns a region
\* with fewer than 3 vertices as entered or as inside.
C22_DegeneratePolygonRejected ==
    /\ [][\A region \in ShapeRegions :
            (/\ region.type = "polygon"
             /\ Len(region.vertices) < 3
             /\ PgAddGeofence(region))
                => UNCHANGED <<pgGeofences, spatialIndex>>]_vars
    /\ [](\A k \in 1..Len(checkLog) :
            \A id \in checkLog[k].result.inside \cup checkLog[k].result.entered :
                LET g == MapGet(pgGeofences, id)
                IN  g.type = "polygon" => Len(g.vertices) >= 3)

\* a circular region the claim calls invalid: latitude outside [-90, 90],
\* longitude outside [-180, 180], or a radius that is not in (0, 10000]
OutOfRange(region) ==
    \/ region.latitude < -90000 \/ region.latitude > 90000
    \/ region.longitude < -180000 \/ region.longitude > 180000
    \/ region.radius <= 0 \/ region.radius > 10000

\* C23: every add-region operation rejects an invalid circular region.
\* OfflineManager.addGeofence called with a region out of range leaves the
\* region set as it is, and ExpoGeofencingImpl.addGeofence called with one
\* does not call the native module.
C23_OutOfRangeRejected ==
    /\ [][\A g \in LimitRegions, now \in Timestamps :
            (engine = "offline" /\ OutOfRange(g) /\ AddGeofence(g, now))
                => UNCHANGED geofences]_vars
    /\ [][\A g \in LimitRegions :
            (engine = "expo" /\ OutOfRange(g) /\ ExpoAddGeofence(g))
                => UNCHANGED nativeRegions]_vars

----------------------------------------------------------------------------
(* Properties of the hierarchy ledger *)

\* the parent the ledger records for an id, "" when it records none
ParentOf(ledger, id) ==
    IF MapHas(ledger, id) THEN MapGet(ledger, id).parentId ELSE ""

RECURSIVE Climb(_, _, _)
\* the ids met by following parentId pointers from id, at most n of them
Climb(ledger, id, n) ==
    IF n = 0 \/ ParentOf(ledger, id) = ""
    THEN {}
    ELSE {ParentOf(ledger, id)} \cup Climb(ledger, ParentOf(ledger, id), n - 1)

\* C24: the hierarchy ledger is a forest.  After any sequence of addGeofence
\* (with hierarchy), updateGeofence and removeGeofence no region is met again
\* by following parentId pointers from it; and an addGeofence whose parentId
\* is the region itself or one of its descendants changes neither the region
\* set nor the ledger.
C24_LedgerIsForest ==
    /\ [](\A i \in 1..Len(hierarchies) :
            hierarchies[i].id
                \notin Climb(hierarchies, hierarchies[i].id,
                             Cardinality(HierarchyIds)))
    /\ [][\A region \in HierarchyRegions :
            (/\ PgAddGeofence(region)
             /\ \/ region.hierarchy.parentId = region.id
                \/ region.id \in Climb(hierarchies, region.hierarchy.parentId,
                                       Cardinality(HierarchyIds)))
                => UNCHANGED <<pgGeofences, hierarchies>>]_vars

\* the ledger entries that name r as their parent or among their children
Referencing(ledger, r) ==
    {ledger[i].id : i \in {k \in 1..Len(ledger) :
        ledger[k].parentId = r \/ r \in SeqToSet(ledger[k].children)}}

\* C25: removeGeofence(r) detaches r from the hierarchy without cascading.
\* When a live region r is removed every other region stays live, the ledger
\* entries of the other regions stay, and afterwards no ledger entry names r
\* as its parent or among its children, in whatever order the parent and
\* its children were added.
C25_RemoveDetaches ==
    [][\A r \in HierarchyIds :
          (MapHas(pgGeofences, r) /\ PgRemoveGeofence(r)) =>
              /\ Ids(pgGeofences') = Ids(pgGeofences) \ {r}
              /\ Ids(hierarchies') = Ids(hierarchies) \ {r}
              /\ Referencing(hierarchies', r) = {}]_vars

----------------------------------------------------------------------------
(* Properties of the activation rules *)

\* minute t of the day lies in the half-open window from start to end, which
\* runs over midnight when start > end
HalfOpen(t, start, end) ==
    IF start < end THEN start <= t /\ t < end
    ELSE t >= start \/ t < end

\* C26: time-rule windows are half-open in minutes of the day.  A region
\* whose one time rule is active and covers the day of the check, with no
\* conditional rule, is evaluated by a checkLocation call exactly when the
\* minute of the day is in [start, end), or for start > end at or after
\* start or before end; at the minute that equals end it is not evaluated.
C26_HalfOpenWindow ==
    \A k \in 1..Len(checkLog) :
        \A i \in 1..Len(pgGeofences) :
            LET g == pgGeofences[i]
                t == checkLog[k].timestamp
            IN  (/\ Len(g.timeRules) = 1
                 /\ g.timeRules[1].isActive
                 /\ getDay(t) \in g.timeRules[1].daysOfWeek
                 /\ timeToMinutes(g.timeRules[1].startTime)
                       # timeToMinutes(g.timeRules[1].endTime)
                 /\ g.conditionalRules = << >>)
                => (g.id \in checkLog[k].evaluated
                      <=> HalfOpen(t % 1440,
                                   timeToMinutes(g.timeRules[1].startTime),
                                   timeToMinutes(g.timeRules[1].endTime)))

\* the region has no time rule that is switched on
NoActiveTimeRule(g) ==
    \A j \in 1..Len(g.timeRules) : ~g.timeRules[j].isActive

\* C27: a region with no active time rule is always time-eligible.  For a
\* live region whose timeRules are empty or all switched off,
\* isTimeRuleActive is true at every timestamp, and a checkLocation call
\* evaluates the region when it has no conditional rule.
C27_NoActiveRuleEligible ==
    \A i \in 1..Len(pgGeofences) :
        LET g == pgGeofences[i]
        IN  NoActiveTimeRule(g) =>
                /\ \A t \in RuleTimes : isTimeRuleActive(g, t)
                /\ \A k \in 1..Len(checkLog) :
                      g.conditionalRules = << >>
                          => g.id \in checkLog[k].evaluated

\* the region has a conditional rule that is switched off
SomeRuleOff(g) ==
    \E j \in 1..Len(g.conditionalRules) : ~g.conditionalRules[j].isActive

\* C28: conditional eligibility looks at the active conditional rules only.
\* A live region without time rules that has a conditional rule switched
\* off, alone or next to active ones, is returned by getActiveGeofences at
\* every timestamp and is evaluated by every checkLocation call.
C28_InactiveConditionIgnored ==
    \A i \in 1..Len(pgGeofences) :
        LET g == pgGeofences[i]
        IN  (g.timeRules = << >> /\ SomeRuleOff(g)) =>
                /\ \A t \in RuleTimes :
                      g.id \in SeqToSet(PgGetActiveGeofences(t))
                /\ \A k \in 1..Len(checkLog) :
                      g.id \in checkLog[k].evaluated

----------------------------------------------------------------------------
(* Properties of the ownership of the inside state *)

\* C29: the inside/outside state is owned by evaluation alone.  A region
\* added with addGeofence is stored Outside whatever metadata the caller
\* passes, and an updateGeofence call leaves the stored state of the region
\* as it was, for OfflineManager and for PolygonGeofenceManager.
C29_StateOwnedByEvaluation ==
    /\ [][\A g \in OwnedRegions, now \in Timestamps :
            (engine = "offline" /\ AddGeofence(g, now))
                => ~WasInside(MapGet(geofences', g.id).metadata)]_vars
    /\ [][\A region \in OwnedPgRegions :
            (engine = "polygon" /\ PgAddGeofence(region))
                => ~WasInside(MapGet(pgGeofences', region.id).metadata)]_vars
    /\ [][\A u \in OwnedUpdates :
            (/\ engine = "offline"
             /\ MapHas(geofences, "g1")
             /\ UpdateGeofence("g1", u))
                => WasInside(MapGet(geofences', "g1").metadata)
                      = WasInside(MapGet(geofences, "g1").metadata)]_vars
    /\ [][\A u \in OwnedUpdates :
            (/\ engine = "polygon"
             /\ MapHas(pgGeofences, "p1")
             /\ PgUpdateGeofence("p1", u))
                => WasInside(MapGet(pgGeofences', "p1").metadata)
                      = WasInside(MapGet(pgGeofences, "p1").metadata)]_vars

----------------------------------------------------------------------------
(* Properties of evaluation with malformed regions *)

\* a region of PolygonGeofenceManager the claim calls malformed: a polygon
\* without vertices, a circle without center or radius, or a time rule
\* whose start or end is no time of day
MalformedPg(g) ==
    \/ g.type = "polygon" /\ Len(g.vertices) = 0
    \/ g.type = "circle" /\ ("center" \notin DOMAIN g \/ g.radius = 0)
    \/ \E j \in 1..Len(g.timeRules) :
          \/ timeToMinutes(g.timeRules[j].startTime) = NaN
          \/ timeToMinutes(g.timeRules[j].endTime) = NaN

\* a circle of OfflineManager without center or radius
MalformedCircle(g) ==
    ~({"latitude", "longitude", "radius"} \subseteq DOMAIN g)

\* C30: one malformed region never blocks the others.  While a malformed
\* region is live, no checkLocation call throws: each returns its lists,
\* and these hold
\* each well-formed region exactly as its own transition for the fix
\* requires: inside when it contains the point, entered when it also was
\* Outside and notifies on entry, exited when it does not contain the point,
\* was Inside and notifies on exit.  Likewise every evaluateLocation call of
\* OfflineManager returns the enter and exit events of each well-formed
\* region.
C30_MalformedDoesNotBlock ==
    /\ \A k \in 1..Len(checkLog) : ~checkLog[k].threw
    /\ \A k \in 1..Len(checkLog) :
          \A i \in 1..Len(pgGeofences) :
              LET g == pgGeofences[i]
                  e == checkLog[k]
                  contains == isPointInside(e.point, g)
              IN  (/\ ~MalformedPg(g)
                   /\ \E j \in 1..Len(pgGeofences) :
                         MalformedPg(pgGeofences[j]))
                  => /\ g.id \in e.result.inside <=> contains
                     /\ g.id \in e.result.entered
                           <=> (/\ contains
                                /\ g.id \notin e.before
                                /\ g.notifyOnEntry)
                     /\ g.id \in e.result.exited
                           <=> (/\ ~contains
                                /\ g.id \in e.before
                                /\ g.notifyOnExit)
    /\ \A k \in 1..Len(evalLog) :
          \A i \in 1..Len(geofences) :
              LET g == geofences[i]
                  e == evalLog[k]
              IN  (/\ ~MalformedCircle(g)
                   /\ \E j \in 1..Len(geofences) :
                         MalformedCircle(geofences[j]))
                  => /\ <<"enter", g.id>> \in SeqToSet(e.events)
                           <=> (/\ g.id \in e.within
                                /\ g.id \notin e.before
                                /\ g.notifyOnEntry)
                     /\ <<"exit", g.id>> \in SeqToSet(e.events)
                           <=> (/\ g.id \notin e.within
                                /\ g.id \in e.before
                                /\ g.notifyOnExit)

----------------------------------------------------------------------------
(* Properties of webhook delivery *)

\* the delivery with this id is queued and waits for an attempt
Waiting(queue, id) ==
    \E j \in 1..Len(queue) :
        queue[j].id = id /\ queue[j].status \in {"pending", "retrying"}

\* C31: retries are not bounded by an attempt count.  When the request of
\* a delivery settles, then unless it succeeded or the webhook has been
\* removed, the delivery is in the queue afterwards, pending or retrying:
\* it is never left failed or dropped from the queue.
C31_RetriedWithoutLimit ==
    [][\A k \in 1..Len(inFlight) :
          LET id == inFlight[k].id
              hook == inFlight[k].webhook.id
          IN  \/ \E j \in 1..Len(inFlight') : inFlight'[j].id = id
              \/ ~MapHas(webhooks', hook)
              \/ MapGet(hookStats', hook).successfulDeliveries
                    > MapGet(hookStats, hook).successfulDeliveries
              \/ Waiting(deliveryQueue', id)]_vars

\* C32: the retry delay of attempt n is min(baseDelay * 2^(n-1), maxDelay)
\* (linear: min(baseDelay * n, maxDelay)) plus a jitter of at least 0 and
\* less than 1000 ms, and the delay with its jitter is at most maxDelay.
\* The delay is read off the delivery the settled request has left
\* retrying: its nextRetryAt less the time of the call.
C32_DelayWithinCeiling ==
    ~isProcessing =>
        \A i \in 1..Len(deliveryQueue) :
            LET d == deliveryQueue[i]
                retryConfig == MapGet(webhooks, d.webhookId).retryConfig
                delay == d.nextRetryAt - hookNow
                grown == IF retryConfig.backoffStrategy = "linear"
                         THEN retryConfig.baseDelay * d.attempt
                         ELSE retryConfig.baseDelay * 2 ^ (d.attempt - 1)
                capped == IF grown < retryConfig.maxDelay THEN grown
                          ELSE retryConfig.maxDelay
            IN  d.status = "retrying"
                => /\ delay - capped \in 0..(JitterRange - 1)
                   /\ delay <= retryConfig.maxDelay

----------------------------------------------------------------------------
(* Properties of polygon containment *)

\* The edges of the closed loop: each vertex joined to the next, the last
\* to the first
LoopEdges(vertices) ==
    {<<vertices[i], vertices[(i % Len(vertices)) + 1]>> :
        i \in 1..Len(vertices)}

\* The ray from the point towards greater longitude crosses the edge from a
\* to b: the edge passes the point's latitude (one end above it, the other
\* not) and meets it at a greater longitude than the point's
RayCrosses(point, a, b) ==
    LET low == IF a.latitude <= b.latitude THEN a ELSE b
        high == IF a.latitude <= b.latitude THEN b ELSE a
    IN  /\ low.latitude <= point.latitude
        /\ point.latitude < high.latitude
        /\ (point.longitude - low.longitude) * (high.latitude - low.latitude)
              < (high.longitude - low.longitude)
                    * (point.latitude - low.latitude)

OddCrossings(point, vertices) ==
    Cardinality({e \in LoopEdges(vertices) :
                    RayCrosses(point, e[1], e[2])}) % 2 = 1

\* C33: ray casting over the closed vertex loop.  Every checkLocation call
\* reports the polygon p1 inside exactly when the horizontal ray from the
\* point crosses an odd number of its edges, the edge from the last vertex
\* to the first included; so the square (0,0), (0,10), (10,10), (10,0) is
\* reported for (5,5) and never for (15,15).
C33_RayCasting ==
    \A k \in 1..Len(checkLog) :
        \A i \in 1..Len(pgGeofences) :
            LET g == pgGeofences[i]
                e == checkLog[k]
            IN  /\ g.id \in e.result.inside
                      <=> OddCrossings(e.point, g.vertices)
                /\ (g.vertices = UnitSquare /\ e.point = Point(5, 5))
                      => g.id \in e.result.inside
                /\ (g.vertices = UnitSquare /\ e.point = Point(15, 15))
                      => g.id \notin e.result.inside

\* the square has been checked at (5,5) and then at (15,15)
C33_Witness ==
    /\ Len(checkLog) = 2
    /\ Len(pgGeofences) = 1
    /\ pgGeofences[1].vertices = UnitSquare
    /\ checkLog[1].point = Point(5, 5)
    /\ checkLog[1].result.inside = {"p1"}
    /\ checkLog[2].point = Point(15, 15)
    /\ checkLog[2].result.inside = {}
    /\ checkLog[2].result.exited = {"p1"}

----------------------------------------------------------------------------
(* Properties of queries of the spatial index *)

\* C34: a region stored Inside that notifies on exit and passes the gate
\* is reported in exited by the first checkLocation call with a point
\* outside it, however far away the point is, and is stored Outside after
\* that call.
C34_ExitWhereverOutside ==
    \A k \in 1..Len(checkLog) :
        \A i \in 1..Len(pgGeofences) :
            LET g == pgGeofences[i]
                e == checkLog[k]
            IN  (/\ g.id \in e.before
                 /\ g.notifyOnExit
                 /\ PassesGate(g, e.timestamp)
                 /\ ~isPointInside(e.point, g))
                => /\ g.id \in e.result.exited
                   /\ k = Len(checkLog) => ~WasInside(g.metadata)

\* C35: queries do not modify the spatial index.  A checkLocation call
\* leaves the cells of the index and the ids in each cell as they were, and
\* in every state the candidates for a point are the live regions whose
\* cells include the point's cell or one of its eight neighbours, whatever
\* was queried before.
C35_QueriesLeaveIndex ==
    /\ [][(checkLog' # checkLog /\ checkLog' # << >>)
              => spatialIndex' = spatialIndex]_vars
    /\ [](\A point \in QueryPoints :
            LET cellKey == getGridCell(point.latitude, point.longitude)
            IN  getCandidateGeofences(pgGeofences, spatialIndex, point)
                  = {pgGeofences[i].id : i \in {j \in 1..Len(pgGeofences) :
                        getGridCells(pgGeofences[j].boundingBox)
                            \cap (getAdjacentCells(cellKey) \cup {cellKey})
                        # {}}})

(***************************************************************************)
(* Properties of an evaluation during a flush                              *)
(***************************************************************************)

\* the ids the running flush was given, in all its batches
FlushIds == SeqToSet(Flatten(flush.batches))

\* an event that was enqueued after the running flush built its batches
LateEvent(id) ==
    /\ flush.phase = "awaiting"
    /\ IsUnsynced(pendingEvents, id)
    /\ id \notin FlushIds

\* C36: an event that evaluateLocation enqueues while syncPendingEvents
\* awaits its sinks joins no batch of that flush, is not marked synced by
\* it, and is in the queue, unsynced, when that flush ends; the interval
\* timer then brings it to a later flush, with no further fix, unless the
\* network goes.
C36_EvaluationDuringFlush ==
    /\ [][/\ (flush.phase = "awaiting" /\ nextEventId' > nextEventId) =>
                /\ flush' = flush
                /\ \A id \in nextEventId..(nextEventId' - 1) :
                        IsUnsynced(pendingEvents', id)
          /\ SettleStep =>
                /\ flush'.phase = "awaiting" => flush'.batches = flush.batches
                /\ \A id \in Enqueued :
                        LateEvent(id) => IsUnsynced(pendingEvents', id)]_vars
    /\ \A id \in 1..MaxQueued :
            LateEvent(id) ~>
                \/ flush.phase = "awaiting" /\ id \in FlushIds
                \/ ~networkStatus.isConnected

\* a flush awaits its sinks and the queue holds an event it was not given
C36_Witness ==
    \E id \in Enqueued : LateEvent(id) /\ networkStatus.isConnected

(***************************************************************************)
(* Properties of a flush requested while disconnected                      *)
(***************************************************************************)

\* The timer of delay fired in this step and its callback scheduled the
\* attempts of rescheduled (none, or one)
TimerReplaced(delay, rescheduled) ==
    /\ BagIn(delay, retryTimeouts)
    /\ retryTimeouts' = (retryTimeouts (-) SetToBag({delay})) (+) rescheduled

\* C37: a flush requested while the network is disconnected does nothing:
\* syncPendingEvents returns {success: false, synced: 0, failed: 0}, invokes
\* no sink and leaves the queue and every synced flag as they are; a direct
\* call leaves the timers alone, and a timer-driven attempt schedules itself
\* again with twice its delay (60000 ms at most) while events are pending.
C37_DisconnectedFlushIsNoOp ==
    [][(Called /\ ~networkStatus.isConnected) =>
          /\ lastReturn'.value = <<Refused>>
          /\ flush' = flush
          /\ syncInProgress' = syncInProgress
          /\ pendingEvents' = pendingEvents
          /\ delivered' = delivered
          /\ \/ retryTimeouts' = retryTimeouts
             \/ /\ getPendingEventsCount(pendingEvents) = 0
                /\ \E delay \in BagToSet(retryTimeouts) :
                        TimerReplaced(delay, EmptyBag)
             \/ /\ getPendingEventsCount(pendingEvents) > 0
                /\ \E delay \in BagToSet(retryTimeouts) :
                        TimerReplaced(delay,
                            SetToBag({Min(delay * 2, MaxDelay)}))]_vars

(***************************************************************************)
(* Properties of the DataManager's event storage                           *)
(***************************************************************************)

\* every storeGeofenceEvent call made so far has resolved
AllStored ==
    /\ storeCalls # << >>
    /\ \A c \in DOMAIN storeCalls : storeCalls[c].pc = "done"

\* the ids storeGeofenceEvent has returned
StoredIds == {storeCalls[c].id : c \in DOMAIN storeCalls}

\* C38: event storage loses no update.  Whatever the interleaving of
\* concurrent storeGeofenceEvent calls, once all of them have resolved
\* getGeofenceEvents returns every stored event, or maxEvents of them when
\* more were stored, and the sync queue has an entry for every stored event.
C38_NoLostUpdates ==
    AllStored =>
        /\ SeqToSet(getGeofenceEvents) \subseteq StoredIds
        /\ Len(getGeofenceEvents) = Min(Cardinality(StoredIds), MaxStored)
        /\ \A id \in StoredIds :
                \E i \in DOMAIN getSyncQueue : getSyncQueue[i] = id

(***************************************************************************)
(* Properties of the attempts of a webhook delivery                        *)
(***************************************************************************)

\* a pass of processDeliveryQueue sends its requests in this step
PassStarts == inFlight = << >> /\ inFlight' # << >>

\* the interval callback runs in this step
IntervalFires == intervalDue' # intervalDue

\* Of every request the step sends: it is at most the limit(maxRetries)-th
\* of its delivery, unless retryFailedDeliveries has renewed the delivery
AttemptsWithin(limit(_)) ==
    PassStarts =>
        \A j \in 1..Len(inFlight') :
            LET a == MapGet(attempted', inFlight'[j].id)
            IN  \/ a.reset
                \/ a.count <= limit(inFlight'[j].webhook.retryConfig.maxRetries)

\* a delivery that is retrying is not sent before its nextRetryAt
NotBeforeNextRetry ==
    PassStarts =>
        \A j \in 1..Len(inFlight') :
            \A i \in 1..Len(deliveryQueue) :
                /\ deliveryQueue[i].id = inFlight'[j].id
                /\ deliveryQueue[i].status = "retrying"
                => /\ deliveryQueue[i].nextRetryAt > 0
                   /\ hookNow >= deliveryQueue[i].nextRetryAt

\* a call of processDeliveryQueue during a running pass changes nothing
OnePassAtATime ==
    (IntervalFires /\ isProcessing) =>
        /\ inFlight' = inFlight
        /\ attempted' = attempted
        /\ deliveryQueue' = deliveryQueue
        /\ isProcessing'

AsConfigured(maxRetries) == maxRetries

AtLeastOnce(maxRetries) == IF maxRetries < 1 THEN 1 ELSE maxRetries

\* C39: without retryFailedDeliveries a delivery is attempted at most
\* max(1, maxRetries) times, the first attempt included (a maxRetries of 0
\* still allows the first attempt); a retrying delivery is never attempted
\* before its nextRetryAt; and processDeliveryQueue never runs two passes at
\* once: a call during a running pass returns without attempting anything.
C39_AttemptsBounded ==
    /\ [][AttemptsWithin(AtLeastOnce)]_vars
    /\ [][NotBeforeNextRetry]_vars
    /\ [][OnePassAtATime]_vars
    /\ [](isProcessing <=> inFlight # << >>)

\* C39 as stated: at most maxRetries attempts in total, the first included
C39_AtMostMaxRetries ==
    /\ [][AttemptsWithin(AsConfigured)]_vars
    /\ [][NotBeforeNextRetry]_vars
    /\ [][OnePassAtATime]_vars
    /\ [](isProcessing <=> inFlight # << >>)

\* a delivery has used up the two attempts its webhook allows, both have
\* failed, and the pass that made the second has dropped it from the queue
C39_Witness ==
    /\ ~isProcessing
    /\ \E i \in 1..Len(attempted), w \in 1..Len(webhooks) :
          /\ attempted[i].count = 2
          /\ ~attempted[i].reset
          /\ webhooks[w].retryConfig.maxRetries = 2
          /\ MapGet(hookStats, webhooks[w].id).failedDeliveries = 2
          /\ \A j \in 1..Len(deliveryQueue) :
                deliveryQueue[j].id # attempted[i].id

(***************************************************************************)
(* Properties of webhook rate limiting                                     *)
(***************************************************************************)

\* the deliveries queued for the webhook in the window that ends at
\* resetTime
QueuedInWindow(webhook, resetTime) ==
    {i \in 1..Len(deliveryQueue) :
        /\ deliveryQueue[i].webhookId = webhook.id
        /\ deliveryQueue[i].timestamp >= resetTime - webhook.rateLimit.windowMs
        /\ deliveryQueue[i].timestamp < resetTime}

\* C40: for a webhook with a rateLimit, at most maxRequests triggered events
\* are queued within one window, also when maxRequests is 0; an event beyond
\* that is skipped without being queued, and the count starts again only
\* once the window's resetTime has passed.
C40_RateLimited ==
    /\ [](\A w \in 1..Len(webhooks) :
            ("rateLimit" \in DOMAIN webhooks[w]
             /\ MapHas(rateLimitTracking, webhooks[w].id)) =>
                Cardinality(QueuedInWindow(webhooks[w],
                    MapGet(rateLimitTracking, webhooks[w].id).resetTime))
                  <= webhooks[w].rateLimit.maxRequests)
    /\ [][\A w \in 1..Len(webhooks) :
            LET id == webhooks[w].id
            IN  (/\ MapHas(rateLimitTracking, id)
                 /\ MapHas(rateLimitTracking', id)
                 /\ MapGet(rateLimitTracking', id).requests
                        <= MapGet(rateLimitTracking, id).requests
                 /\ MapGet(rateLimitTracking', id)
                        # MapGet(rateLimitTracking, id))
                => hookNow >= MapGet(rateLimitTracking, id).resetTime]_vars

====
